---- MODULE Spec2Model ----
(***************************************************************************)
(* BackgroundTaskTracker (common/background-task-tracker.cts): a registry  *)
(* of in-flight asynchronous operations and managed timers.                *)
(*                                                                         *)
(* The JavaScript run time is one thread with run-to-completion callbacks: *)
(* every action below is one synchronous stretch of code (a call, the      *)
(* continuation of an await, a timer callback).  The continuation of       *)
(* `await task` in track is a job of its own, queued when the awaited      *)
(* promise settles, so other code can run between the settlement of the    *)
(* promise and the cleanup in track's finally block.                       *)
(***************************************************************************)
EXTENDS Integers, Sequences, FiniteSets, TLC

VARIABLES
    activeTasks,  \* Map<string, TrackedTask>, in insertion order
    nextId,       \* the tracker's id counter
    now,          \* Date.now()
    promises,     \* the promises handed to track, by creation order
    calls,        \* the calls of track, by call order
    timers,       \* the host timers armed by tracker.setTimeout, by call order
    events        \* the tracker's logger calls, grouped by task id

\* WorkspaceManager.scanWorkspace (extension/workspace-manager.cts)
VARIABLES
    workspace,      \* the files vscode.workspace.findFiles will find
    cancelled,      \* token.isCancellationRequested
    scanPc,         \* where the scan's async function stands
    scanRef,        \* the scan's promise and its call of taskTracker.track
    files,          \* const files
    total,          \* const total
    loopI,          \* the loop variable i
    items,          \* the async callbacks of batch.map, by global file index
    allObjects,     \* const allObjects
    progressCalls,  \* the calls of onProgressMessage
    dispatched,     \* the values of i for which a batch was dispatched
    parserCalls,    \* the file indices parser.parse was invoked for
    cancelledAtCall,\* the token's state when scanWorkspace was called
    stoppedEarly,   \* the loop was left through `break`
    overtaken,      \* a callback of a batch returned before one of lower index
    scanError       \* what findFiles or onProgressMessage threw, if they did

\* managedDelay (common/utils.cts)
VARIABLES
    aborted,        \* signal.aborted
    listeners,      \* the signal's 'abort' listeners, in registration order
    delays          \* the calls of managedDelay, by call order

\* FileParser.parse and the layout functions, called on their own
VARIABLES
    pureCall,       \* the function called and its arguments
    pureResult      \* what the call returned or threw

trackerVars == <<activeTasks, nextId, now, promises, calls, timers, events>>

scanVars == <<workspace, cancelled, scanPc, scanRef, files, total, loopI, items,
              allObjects, progressCalls, dispatched, parserCalls,
              cancelledAtCall, stoppedEarly, overtaken, scanError>>

delayVars == <<aborted, listeners, delays>>

pureVars == <<pureCall, pureResult>>

vars == <<activeTasks, nextId, now, promises, calls, timers, events, scanVars,
          delayVars, pureVars>>

----------------------------------------------------------------------------
(* Bounds of the model *)

MaxIds == 2        \* ids the tracker may issue (calls of track + setTimeout)
MaxPromises == 2   \* promises the callers create
MaxTime == 2       \* last value of the clock
MaxDelay == 1      \* largest delay passed to setTimeout

Delays == 0..MaxDelay
Descriptions == {"test-task", "failing-task"}
Values == {"done"}

\* VisualizerError(code, message): severity defaults to NON_RETRYABLE
VisualizerError(code, message) ==
    [code |-> code, message |-> message, severity |-> "NON_RETRYABLE"]

Errors == {VisualizerError("PARSING_FAILED", "Test error"),
           VisualizerError("CANCELLATION_REQUESTED", "Operation cancelled")}

\* The error a tracker that wrapped failures would raise instead
WrappedError == [code |-> "TASK_FAILED", message |-> "Task failed",
                 severity |-> "NON_RETRYABLE"]

----------------------------------------------------------------------------
(* Promise states *)

Pending == [status |-> "pending", payload |-> "none"]
Resolved(v) == [status |-> "resolved", payload |-> v]
Rejected(e) == [status |-> "rejected", payload |-> e]

Settlements == {Resolved(v) : v \in Values} \cup {Rejected(e) : e \in Errors}

----------------------------------------------------------------------------
(* Map<string, TrackedTask>, kept as the sequence of its values in         *)
(* insertion order (the order Map.prototype.values() yields)               *)

MapKeys(m) == {m[i].id : i \in DOMAIN m}

MapHas(m, id) == id \in MapKeys(m)

\* Map.set: replaces the value of an existing key in place, else appends
MapSet(m, id, v) ==
    IF MapHas(m, id)
    THEN [i \in DOMAIN m |-> IF m[i].id = id THEN v ELSE m[i]]
    ELSE Append(m, v)

\* Map.delete: removes the key if present
MapDelete(m, id) == SelectSeq(m, LAMBDA t : t.id # id)

\* getActiveTasks(): Array.from(this.activeTasks.values())
getActiveTasks == activeTasks

----------------------------------------------------------------------------
(* Ids and the logger *)

\* `task-${n}` and `timer-${n}`
TaskId(n) == "task-" \o ToString(n)
TimerId(n) == "timer-" \o ToString(n)

\* this.nextId++ : the counter's value after the call
NextIdReused(n) == n
NextIdAfter(n) == n + 1

\* `Timeout (${ms}ms)`
TimerDescription(ms) == "Timeout (" \o ToString(ms) \o "ms)"

\* logger.debug / logger.error with the task's id in the context
Log(ev, id, message) ==
    [k \in DOMAIN ev \cup {id} |->
        IF k = id
        THEN (IF id \in DOMAIN ev THEN Append(ev[id], message) ELSE <<message>>)
        ELSE ev[k]]

EmptyEvents == [k \in {} |-> <<>>]

----------------------------------------------------------------------------
(* track: the parts of the async function *)

\* the finally block: this.activeTasks.delete(id)
TrackFinallyOnSuccessOnly(reg, id, settled) ==
    IF settled.status = "resolved" THEN MapDelete(reg, id) ELSE reg
TrackFinallyClearOnFailure(reg, id, settled) ==
    IF settled.status = "rejected" THEN <<>> ELSE MapDelete(reg, id)
TrackFinally(reg, id, settled) == MapDelete(reg, id)

\* `return result` in the try block, `throw error` in the catch block
TrackOutcomeWrapped(settled) ==
    IF settled.status = "rejected" THEN Rejected(WrappedError) ELSE settled
TrackOutcome(settled) ==
    IF settled.status = "rejected"
    THEN Rejected(settled.payload)
    ELSE Resolved(settled.payload)

\* the message logged when the awaited task settles
TrackLogMessage(settled) ==
    IF settled.status = "rejected" THEN "Task failed" ELSE "Task completed"

----------------------------------------------------------------------------
(* setTimeout: the parts of the timer callback and of cancel()             *)

\* the callback's first statement: this.activeTasks.delete(id)
TimerCallbackKeepsEntry(reg, id) == reg
TimerCallbackDelete(reg, id) == MapDelete(reg, id)

\* the registry the handler finds when the callback invokes it: the
\* callback deletes the entry, logs, and then calls handler()
RegistryAtHandlerBeforeDelete(reg, id) == reg
RegistryAtHandler(reg, id) == TimerCallbackDelete(reg, id)

\* clearTimeout(timer): disarms a pending host timer, no effect otherwise
ClearTimeoutNoOp(host) == host
ClearTimeout(host) == IF host = "armed" THEN "cleared" ELSE host

\* cancel(): if (this.activeTasks.has(id)) { delete; log }
CancelRegistryKeepsEntry(reg, id) == reg
CancelRegistry(reg, id) == IF MapHas(reg, id) THEN MapDelete(reg, id) ELSE reg
CancelEventsUnguarded(ev, reg, id) == Log(ev, id, "Timer cancelled")
CancelEvents(ev, reg, id) ==
    IF MapHas(reg, id) THEN Log(ev, id, "Timer cancelled") ELSE ev

----------------------------------------------------------------------------
(* Initial state: new BackgroundTaskTracker(), no caller activity yet *)

TrackerInit ==
    /\ activeTasks = <<>>
    /\ nextId = 1
    /\ now = 0
    /\ promises = <<>>
    /\ calls = <<>>
    /\ timers = <<>>
    /\ events = EmptyEvents

\* no scan has been requested
ScanIdle ==
    /\ cancelled = FALSE
    /\ scanPc = "idle"
    /\ scanRef = [promise |-> 0, call |-> 0]
    /\ files = <<>>
    /\ total = 0
    /\ loopI = 0
    /\ items = <<>>
    /\ allObjects = <<>>
    /\ progressCalls = <<>>
    /\ dispatched = <<>>
    /\ parserCalls = {}
    /\ cancelledAtCall = FALSE
    /\ stoppedEarly = FALSE
    /\ overtaken = FALSE
    /\ scanError = "none"

\* managedDelay has not been called, the signal is not aborted
DelayIdle ==
    /\ aborted = FALSE
    /\ listeners = <<>>
    /\ delays = <<>>

\* no call of the parser or of a layout function on its own
PureIdle ==
    /\ pureCall = [fn |-> "none"]
    /\ pureResult = [kind |-> "none"]

Init ==
    /\ TrackerInit
    /\ workspace = <<>>
    /\ ScanIdle
    /\ DelayIdle
    /\ PureIdle

----------------------------------------------------------------------------
(* Caller side: promises *)

\* new Promise(...) left pending, Promise.resolve(v) or Promise.reject(e)
NewPromise(state) ==
    /\ Len(promises) < MaxPromises
    /\ promises' = Append(promises, state)
    /\ UNCHANGED <<activeTasks, nextId, now, calls, timers, events>>

\* a pending promise that no managed timer resolves is settled by its owner
SettlePromise(p, outcome) ==
    /\ promises[p].status = "pending"
    /\ \A t \in DOMAIN timers : timers[t].resolves # p
    /\ promises' = [promises EXCEPT ![p] = outcome]
    /\ UNCHANGED <<activeTasks, nextId, now, calls, timers, events>>

----------------------------------------------------------------------------
(* BackgroundTaskTracker.setTimeout(handler, ms) *)

\* the synchronous body: issue the id, register, log, arm the host timer.
\* resolves = 0: the handler only records that it ran;
\* resolves = p: the handler also resolves promise p
ArmTimer(ms, resolves) ==
    LET id == TimerId(nextId) IN
    /\ nextId' = NextIdAfter(nextId)
    /\ activeTasks' = MapSet(activeTasks, id,
            [id |-> id, description |-> TimerDescription(ms), startTime |-> now])
    /\ events' = Log(events, id, "Timer started")
    /\ timers' = Append(timers,
            [id |-> id, ms |-> ms, due |-> now + ms, host |-> "armed",
             resolves |-> resolves, handlerCalls |-> 0,
             handlerSawEntry |-> FALSE,
             cancelledBeforeFire |-> FALSE, cancelledAfterFire |-> FALSE])

SetTimeout(ms) ==
    /\ nextId <= MaxIds
    /\ ArmTimer(ms, 0)
    /\ UNCHANGED <<now, promises, calls>>

\* new Promise(resolve => { tracker.setTimeout(() => { ...; resolve(); }, ms) })
\* the executor runs inside the Promise constructor
NewTimerPromise(ms) ==
    /\ nextId <= MaxIds
    /\ Len(promises) < MaxPromises
    /\ promises' = Append(promises, Pending)
    /\ ArmTimer(ms, Len(promises) + 1)
    /\ UNCHANGED <<now, calls>>

\* the host timer's callback, run once the delay has elapsed
TimerFire(t) ==
    LET tm == timers[t] IN
    /\ tm.host = "armed"
    /\ now >= tm.due
    /\ activeTasks' = TimerCallbackDelete(activeTasks, tm.id)
    /\ events' = Log(events, tm.id, "Timer fired")
    /\ timers' = [timers EXCEPT ![t].host = "fired",
                                ![t].handlerCalls = @ + 1,
                                ![t].handlerSawEntry =
                                    MapHas(RegistryAtHandler(activeTasks, tm.id), tm.id)]
    /\ promises' = IF tm.resolves # 0 /\ promises[tm.resolves].status = "pending"
                   THEN [promises EXCEPT ![tm.resolves] = Resolved("done")]
                   ELSE promises
    /\ UNCHANGED <<nextId, now, calls>>

\* handle.cancel()
Cancel(t) ==
    LET tm == timers[t] IN
    /\ timers' = [timers EXCEPT ![t].host = ClearTimeout(tm.host),
                                ![t].cancelledBeforeFire = @ \/ tm.host = "armed",
                                ![t].cancelledAfterFire = @ \/ tm.host = "fired"]
    /\ activeTasks' = CancelRegistry(activeTasks, tm.id)
    /\ events' = CancelEvents(events, activeTasks, tm.id)
    /\ UNCHANGED <<nextId, now, promises, calls>>

----------------------------------------------------------------------------
(* BackgroundTaskTracker.track(description, task) *)

\* the synchronous part, up to `await task`
Track(description, p) ==
    LET id == TaskId(nextId) IN
    /\ nextId <= MaxIds
    /\ nextId' = NextIdAfter(nextId)
    /\ activeTasks' = MapSet(activeTasks, id,
            [id |-> id, description |-> description, startTime |-> now])
    /\ events' = Log(events, id, "Task started")
    /\ calls' = Append(calls,
            [id |-> id, task |-> p, pc |-> "awaiting", returned |-> Pending,
             callerSaw |-> Pending, callerSawEntry |-> FALSE])
    /\ UNCHANGED <<now, promises, timers>>

\* the continuation of `await task`: try or catch, then finally; the promise
\* returned by track settles when this continuation returns or throws
TrackResume(c) ==
    LET call == calls[c]
        settled == promises[call.task] IN
    /\ call.pc = "awaiting"
    /\ settled.status # "pending"
    /\ events' = Log(events, call.id, TrackLogMessage(settled))
    /\ activeTasks' = TrackFinally(activeTasks, call.id, settled)
    /\ calls' = [calls EXCEPT ![c].pc = "settled",
                              ![c].returned = TrackOutcome(settled)]
    /\ UNCHANGED <<nextId, now, promises, timers>>

\* the caller's `await tracker.track(...)` resumes and reads getActiveTasks()
CallerObserve(c) ==
    LET call == calls[c] IN
    /\ call.pc = "settled"
    /\ calls' = [calls EXCEPT ![c].pc = "observed",
                              ![c].callerSaw = call.returned,
                              ![c].callerSawEntry = MapHas(getActiveTasks, call.id)]
    /\ UNCHANGED <<activeTasks, nextId, now, promises, timers, events>>

----------------------------------------------------------------------------
\* the clock advances
Tick ==
    /\ now < MaxTime
    /\ now' = now + 1
    /\ UNCHANGED <<activeTasks, nextId, promises, calls, timers, events>>

\* the tracker on its own: no scan is running
Next ==
    \/ \E s \in {Pending} \cup Settlements : NewPromise(s) /\ UNCHANGED <<scanVars, delayVars, pureVars>>
    \/ \E p \in DOMAIN promises : \E o \in Settlements :
          SettlePromise(p, o) /\ UNCHANGED <<scanVars, delayVars, pureVars>>
    \/ \E ms \in Delays : SetTimeout(ms) /\ UNCHANGED <<scanVars, delayVars, pureVars>>
    \/ \E ms \in Delays : NewTimerPromise(ms) /\ UNCHANGED <<scanVars, delayVars, pureVars>>
    \/ \E t \in DOMAIN timers : TimerFire(t) /\ UNCHANGED <<scanVars, delayVars, pureVars>>
    \/ \E t \in DOMAIN timers : Cancel(t) /\ UNCHANGED <<scanVars, delayVars, pureVars>>
    \/ \E d \in Descriptions : \E p \in DOMAIN promises :
          Track(d, p) /\ UNCHANGED <<scanVars, delayVars, pureVars>>
    \/ \E c \in DOMAIN calls : TrackResume(c) /\ UNCHANGED <<scanVars, delayVars, pureVars>>
    \/ \E c \in DOMAIN calls : CallerObserve(c) /\ UNCHANGED <<scanVars, delayVars, pureVars>>
    \/ Tick /\ UNCHANGED <<scanVars, delayVars, pureVars>>

Spec == Init /\ [][Next]_vars

----------------------------------------------------------------------------
(* Properties of the tracker *)

IsSettled(call) == call.pc \in {"settled", "observed"}

LiveCalls == {c \in DOMAIN calls : calls[c].pc = "awaiting"}
ArmedTimers == {t \in DOMAIN timers : timers[t].host = "armed"}
LiveIds == {calls[c].id : c \in LiveCalls} \cup {timers[t].id : t \in ArmedTimers}
IssuedIds == {calls[c].id : c \in DOMAIN calls} \cup {timers[t].id : t \in DOMAIN timers}

\* C1: once a call of track has settled, by return or by throw, the entry it
\* registered is gone from getActiveTasks(); when no other call is pending and
\* no timer is armed the registry is empty again.
C1_TrackLeavesNoEntry ==
    /\ \A c \in DOMAIN calls :
          IsSettled(calls[c]) => ~MapHas(getActiveTasks, calls[c].id)
    /\ (LiveCalls = {} /\ ArmedTimers = {}) => Len(getActiveTasks) = 0

C1_Witness ==
    \E c, d \in DOMAIN calls :
        /\ IsSettled(calls[c]) /\ calls[c].returned.status = "resolved"
        /\ IsSettled(calls[d]) /\ calls[d].returned.status = "rejected"

\* C2: when the tracked promise rejects with E, the promise track returns
\* rejects with that same E, and the caller that observes the rejection finds
\* the task's entry already removed.
C2_RethrowsSameError ==
    \A c \in DOMAIN calls :
        LET task == promises[calls[c].task] IN
        (IsSettled(calls[c]) /\ task.status = "rejected") =>
            /\ calls[c].returned.status = "rejected"
            /\ calls[c].returned.payload = task.payload
            /\ calls[c].pc = "observed" =>
                  /\ calls[c].callerSaw = task
                  /\ ~calls[c].callerSawEntry

C2_Witness ==
    \E c \in DOMAIN calls :
        /\ calls[c].pc = "observed"
        /\ calls[c].callerSaw.status = "rejected"
        /\ calls[c].callerSaw.payload.code = "PARSING_FAILED"

\* C3: a timer whose cancel() was called before it fired never runs its
\* handler afterwards, and its entry is absent from getActiveTasks() from the
\* moment cancel() returns.
C3_CancelBeforeFire ==
    \A t \in DOMAIN timers :
        timers[t].cancelledBeforeFire =>
            /\ timers[t].handlerCalls = 0
            /\ ~MapHas(getActiveTasks, timers[t].id)

\* a cancelled timer whose delay has since elapsed, next to a later timer
\* that did fire
C3_Witness ==
    \E t, u \in DOMAIN timers :
        /\ timers[t].cancelledBeforeFire
        /\ now >= timers[t].due
        /\ timers[u].handlerCalls = 1
        /\ timers[u].due >= timers[t].due

\* C4: cancel() on a timer that has already fired changes nothing: the
\* registry keeps every entry, no handler is invoked and nothing is logged.
C4_CancelAfterFireIsNoOp ==
    [][\A t \in DOMAIN timers :
          (timers[t].host = "fired" /\ Cancel(t)) =>
              /\ activeTasks' = activeTasks
              /\ events' = events
              /\ promises' = promises
              /\ \A u \in DOMAIN timers :
                    /\ timers'[u].handlerCalls = timers[u].handlerCalls
                    /\ timers'[u].host = timers[u].host]_vars

C4_Witness ==
    \E t \in DOMAIN timers :
        /\ timers[t].cancelledAfterFire
        /\ timers[t].handlerCalls = 1
        /\ Len(getActiveTasks) = 1

IdsIssuedOnce == Cardinality(IssuedIds) = Len(calls) + Len(timers)

C6_IdsNeverReused ==
    [][/\ IdsIssuedOnce'
       /\ \A id \in IssuedIds :
             ~MapHas(activeTasks, id) => ~MapHas(activeTasks', id)]_vars

C6_Witness ==
    \E c \in DOMAIN calls : \E t \in DOMAIN timers :
        /\ timers[t].host # "armed"
        /\ ~MapHas(getActiveTasks, timers[t].id)
        /\ MapHas(getActiveTasks, calls[c].id)

\* C7: the timer callback removes the entry before it invokes the handler:
\* the handler never finds the timer's id in getActiveTasks(), nor does
\* anyone after it.
C7_EntryRemovedBeforeHandler ==
    \A t \in DOMAIN timers :
        timers[t].handlerCalls > 0 =>
            /\ ~timers[t].handlerSawEntry
            /\ ~MapHas(getActiveTasks, timers[t].id)

C7_Witness ==
    \E t \in DOMAIN timers :
        /\ timers[t].handlerCalls = 1
        /\ timers[t].resolves # 0
        /\ promises[timers[t].resolves].status = "resolved"

\* C8: every task is registered once and ends in at most one terminal event
\* (completed, failed, fired or cancelled); after it nothing more happens to
\* the task and it is never in the registry again.
Lifecycles ==
    {<<"Task started">>, <<"Task started", "Task completed">>,
     <<"Task started", "Task failed">>,
     <<"Timer started">>, <<"Timer started", "Timer fired">>,
     <<"Timer started", "Timer cancelled">>}

LifecycleOk ==
    \A id \in DOMAIN events :
        /\ events[id] \in Lifecycles
        /\ MapHas(activeTasks, id) <=> Len(events[id]) = 1

C8_OneTerminalEvent ==
    [][/\ LifecycleOk'
       /\ \A id \in DOMAIN events :
             Len(events[id]) = 2 =>
                 /\ events'[id] = events[id]
                 /\ ~MapHas(activeTasks', id)]_vars

C8_Witness ==
    \E i, j \in DOMAIN events :
        /\ events[i] = <<"Timer started", "Timer fired">>
        /\ \E t \in DOMAIN timers : timers[t].id = i /\ timers[t].cancelledAfterFire
        /\ events[j] = <<"Task started", "Task failed">>

\* C9: the step in which a tracked operation's failure is handled removes
\* that task's entry and settles that call's promise and touches nothing
\* else; afterwards the tracker still accepts track and setTimeout.
HasFailed == \E c \in DOMAIN calls : calls[c].returned.status = "rejected"

C9_FailureIsLocal ==
    /\ [][\A c \in DOMAIN calls :
            (TrackResume(c) /\ promises[calls[c].task].status = "rejected") =>
                /\ activeTasks' = SelectSeq(activeTasks, LAMBDA e : e.id # calls[c].id)
                /\ nextId' = nextId
                /\ timers' = timers
                /\ promises' = promises
                /\ \A d \in DOMAIN calls : d # c => calls'[d] = calls[d]]_vars
    /\ [](HasFailed /\ nextId <= MaxIds =>
            /\ ENABLED (\E ms \in Delays : SetTimeout(ms))
            /\ ENABLED (\E d \in Descriptions : \E p \in DOMAIN promises : Track(d, p)))

C9_Witness ==
    \E c \in DOMAIN calls :
        /\ calls[c].returned.status = "rejected"
        /\ \E e \in DOMAIN getActiveTasks :
              /\ getActiveTasks[e].id # calls[c].id
              /\ getActiveTasks[e].startTime > 0

\* C10: on a fresh tracker, while a tracked operation that waits on a managed
\* timer of the same tracker is pending, getActiveTasks() has exactly one
\* entry, with id 'task-1'; after the operation settles it has none.
C10_OnlyTheTaskIsListed ==
    \A c \in DOMAIN calls :
        (/\ Len(calls) = 1 /\ Len(timers) = 1
         /\ timers[1].resolves = calls[c].task) =>
            /\ (calls[c].pc = "awaiting" /\ timers[1].host = "armed") =>
                  /\ Len(getActiveTasks) = 1
                  /\ getActiveTasks[1].id = "task-1"
            /\ IsSettled(calls[c]) => Len(getActiveTasks) = 0

----------------------------------------------------------------------------
(***************************************************************************)
(* WorkspaceManager.scanWorkspace (extension/workspace-manager.cts) with   *)
(* FileParser.parse (extension/parser.cts).                                *)
(*                                                                         *)
(* The scan is the async function handed to taskTracker.track("Workspace   *)
(* Scan", ...).  Its steps are the synchronous stretches between awaits:   *)
(* the call, the continuation of findFiles, the continuation of each       *)
(* openTextDocument and of each yield of the parser, and the continuation  *)
(* of Promise.all.  File indices are 0-based as in the source.             *)
(***************************************************************************)

MaxFiles == 12     \* most files findFiles returns

\* const batchSize = 5
batchSize == 5

Min(a, b) == IF a <= b THEN a ELSE b

\* Buffer.from(fileName).toString('base64').replace(/[/+=]/g, '') for the
\* file names of the model's workspaces
FileHash(fileName) ==
    CASE fileName = "/ws/f0.ts" -> "L3dzL2YwLnRz"
      [] fileName = "/ws/f1.ts" -> "L3dzL2YxLnRz"
      [] fileName = "/ws/f2.ts" -> "L3dzL2YyLnRz"
      [] fileName = "/ws/f3.ts" -> "L3dzL2YzLnRz"
      [] fileName = "/ws/f4.ts" -> "L3dzL2Y0LnRz"
      [] fileName = "/ws/f5.ts" -> "L3dzL2Y1LnRz"
      [] fileName = "/ws/f6.ts" -> "L3dzL2Y2LnRz"
      [] fileName = "/ws/f7.ts" -> "L3dzL2Y3LnRz"
      [] fileName = "/ws/f8.ts" -> "L3dzL2Y4LnRz"
      [] fileName = "/ws/f9.ts" -> "L3dzL2Y5LnRz"
      [] fileName = "/ws/f10.ts" -> "L3dzL2YxMC50cw"
      [] fileName = "/ws/f11.ts" -> "L3dzL2YxMS50cw"
      [] fileName = "/ws/f12.ts" -> "L3dzL2YxMi50cw"
      [] fileName = "/ws/f13.ts" -> "L3dzL2YxMy50cw"

\* (Math.round(r * Math.cos(a)), Math.round(r * Math.sin(a))) with
\* r = 1.5 * Math.sqrt(blockIndex), a = blockIndex * 2.4, in IEEE doubles
BlockSpiral(blockIndex) ==
    <<[x |-> 0, z |-> 0], [x |-> -1, z |-> 1], [x |-> 0, z |-> -2],
      [x |-> 2, z |-> 2]>>[blockIndex + 1]

\* islandX = Math.round(islandRadius * Math.cos(islandAngle)) with
\* islandRadius = islandScale * Math.sqrt(fileGlobalIndex), islandScale = 15,
\* islandAngle = fileGlobalIndex * 2.4, in IEEE doubles, for the indices
\* 0, 1, 2, ... (no product is closer than 0.00001 to a rounding boundary)
IslandX ==
    <<0, -11, 2, 16, -30, 28, -10, -18, 40, -42, 20, 15, -45, 53, -32, -7,
      46, -62, 45, -3, -43, 68, -58, 16, 36, -71, 69, -30, -27, 71, -79, 45,
      14, -68, 87, -60, 1, 61, -92, 75, -17, -51, 94, -88, 35, 38, -92, 98,
      -53, -22, 86, -106, 70, 4, -77, 111, -87, 16, 65, -112, 101, -36, -49, 109,
      -113, 57, 30, -103, 122, -77, -9, 92, -127, 96, -13, -78, 128, -112, 36, 60,
      -125, 125, -59, -39, 118, -135, 81, 16, -106, 141, -102, 8, 91, -143, 120, -34,
      -71, 140, -136, 59, 49, -132, 147, -84, -24, 120, -154, 107, -3, -104, 156, -127,
      31, 83, -154, 144, -58, -59, 146, -157, 85, 32, -134, 165, -110, -4, 116, -169,
      132, -26, -95, 167, -151, 56, 70, -159, 166, -85, -42, 147, -175, 112, 11, -129,
      180, -136, 20, 107, -179, 157, -52, -81, 172, -173, 83, 51, -160, 185, -112, -20,
      142, -190, 139, -14, -119, 190, -161, 47, 92, -184, 180, -80, -62, 172, -193, 112,
      29, -155, 200, -140, 6, 132, -201, 165, -42, -104, 196, -185, 77, 73, -184, 200,
      -110, -38, 167, -208, 140, 2, -144, 211, -167, 35, 116, -207, 189, -72, -84, 196,
      -206, 107, 49, -179, 216, -140, -11, 157, -220, 168, -28, -128, 217, -192, 66, 96,
      -208, 211, -103, -59, 192, -223, 138, 21, -169, 229, -169, 19, 141, -228, 195, -59,
      -108, 219, -215, 98, 71, -203, 230, -135, -31, 181, -237, 168, -10, -153, 237, -196,
      52, 120, -230, 219, -93, -83, 215, -235, 131, 42, -194, 244, -166, 1, 166, -246,
      197, -44, -133, 240, -221, 86, 95, -227, 240, -127, -53, 206, -251, 164, 10, -179,
      254, -196, 35, 145, -250, 223, -79, -107, 238, -244, 121, 65, -218, 257, -160, -21,
      191, -262, 195, -25, -158, 259, -224, 71, 120, -248, 247, -115, -77, 230, -262, 156,
      32, -204, 269, -193, 15, 171, -268, 224, -62, -133, 259, -249, 108, 90, -241, 266,
      -151, -44, 216, -275, 190, -4, -184, 276, -223, 53, 146, -269, 250, -100, -103, 253,
      -270, 145, 56, -229, 281, -186, -7, 197, -284, 222, -43, -159, 278, -251, 92, 116,
      -264, 273, -138, -69, 241, -286, 181, 19, -210, 291, -219, 32, 173, -287, 251, -82,
      -130, 274, -275, 131, 82, -253, 291, -176, -32, 223, -298, 216, -20, -186, 296, -250,
      72, 144, -284, 276, -123, -96, 264, -294, 170, 45, -236, 304, -212, 8, 200, -304,
      248, -62, -157, 294, -277, 114, 110, -276, 297, -162, -58, 248, -309, 207, 4, -213,
      311, -245, 50, 171, -303, 276, -104, -124, 287, -299, 155, 72, -261, 313, -201, -17,
      227, -318, 242, -39, -185, 312, -275, 94, 138, -297, 301, -146, -86, 273, -317, 195,
      31, -240, 324, -237, 26, 199, -321, 273, -82, -152, 307, -301, 137, 100, -285, 320,
      -187, -44, 253, -329, 232, -13, -213, 328, -271, 71, 167, -317, 301, -127, -115, 296,
      -323, 179, 59, -266, 334, -227, 0, 227, -335, 267, -59, -181, 327, -300, 116, 130,
      -307, 324, -170, -73, 279, -338, 220, 14, -241, 342, -263, 46, 196, -335, 299, -105,
      -145, 318, -325, 161, 88, -291, 342, -213, -29, 255, -348, 258, -32, -211, 344, -296,
      93, 160, -329, 325, -151, -103, 303, -344, 204, 43, -269, 353, -252, 19, 225, -351,
      293, -80, -175, 338, -324, 140, 119, -315, 346, -195, -58, 282, -358, 246, -4, -240,
      358, -288, 67, 190, -348, 323, -128, -134, 326, -347, 186, 74, -295, 362, -238, -11,
      254, -365, 284, -53, -205, 357, -321, 116, 150, -337, 348, -175, -89, 308, -365, 230,
      26, -268, 370, -278, 39, 221, -365, 317, -103, -166, 348, -347, 164, 105, -320, 367,
      -221, -41, 282, -376, 271, -24, -236, 372, -313, 90, 182, -358, 346, -153, -121, 332,
      -369, 211, 57, -296, 380, -264, 9, 251, -379, 309, -76, -198, 367, -344, 140, 138,
      -344, 370, -201, -73, 310, -384, 256, 6, -266, 386, -303, 61, 213, -376, 342, -127,
      -154, 355, -370, 190, 90, -323, 386, -247, -22, 281, -392, 297, -46, -229, 385, -338,
      114, 171, -366, 369, -178, -107, 336, -389, 237, 39, -295, 397, -290, 31, 245, -392,
      334, -99, -187, 376, -367, 166, 123, -348, 390, -227, -55, 309, -401, 282, -15, -261,
      399, -328, 85, 204, -386, 365, -152, -140, 360, -391, 216, 72, -323, 404, -273, -2,
      276, -406, 322, -69, -220, 395, -362, 139, 158, -372, 390, -204, -90, 337, -407, 264,
      18, -291, 412, -316, 54, 237, -403, 358, -124, -175, 382, -389, 192, 107, -350, 409,
      -254, -36, 306, -417, 308, -37, -253, 411, -353, 109, 192, -393, 388, -179, -125, 363,
      -410, 243, 53, -321, 421, -299, 21, 269, -418, 347, -94, -209, 403, -385, 165, 142,
      -375, 411, -231, -71, 335, -424, 290, -3, -285, 425, -341, 78, 226, -412, 381, -150,
      -160, 387, -410, 218, 89, -349, 427, -280, -14, 301, -430, 334, -61, -243, 421, -377,
      135, 178, -398, 409, -205, -107, 363, -429, 269, 32, -317, 435, -326, 44, 260, -429,
      372, -120, -196, 409, -407, 191, 125, -376, 430, -258, -50, 332, -440, 317, -27, -277,
      436, -366, 103, 214, -419, 404, -177, -143, 389, -430, 246, 68, -347, 443, -307, 9,
      294, -443, 359, -87, -232, 428, -400, 162, 162, -401, 430, -233, -87, 361, -446, 296,
      9, -310, 448, -351, 69, 249, -437, 396, -146, -180, 413, -428, 219, 106, -375, 448,
      -285, -28, 326, -454, 343, -52, -267, 445, -390, 130, 199, -424, 426, -204, -125, 389,
      -449, 273, 46, -342, 458, -333, 34, 284, -453, 384, -113, -217, 434, -423, 189, 144,
      -402, 449, -260, -65, 357, -461, 323, -15, -301, 460, -377, 96, 236, -444, 419, -174,
      -163, 414, -448, 247, 85, -372, 464, -312, -4, 318, -466, 369, -78, -254, 453, -414,
      157, 182, -426, 447, -232, -104, 386, -466, 301, 23, -335, 471, -360, 60, 272, -461,
      408, -141, -201, 438, -444, 218, 124, -400, 467, -288, -42, 351, -475, 350, -41, -290,
      469, -402, 123, 220, -448, 441, -202, -144, 414, -467, 275, 62, -367, 479, -340, 22,
      308, -476, 394, -105, -239, 459, -437, 186, 163, -427, 466, -261, -82, 382, -482, 328,
      -2, -325, 482, -386, 87, 258, -468, 432, -169, -183, 439, -465, 246, 102, -397, 483,
      -316, -18, 342, -487, 377, -68, -277, 477, -426, 151, 203, -451, 462, -231, -122, 411,
      -485, 303, 38, -359, 492, -367, 48, 295, -484, 419, -133, -223, 462, -459, 215, 143,
      -425, 485, -289, -58, 375, -496, 356, -29, -314, 492, -411, 115, 242, -472, 454, -198,
      -163, 439, -484, 275, 79, -391, 499, -344, 9, 332, -498, 403, -96, -262, 482, -449,
      180, 184, -451, 482, -260, -99, 407, -500, 331, 12, -349, 503, -393, 76, 281, -491,
      443, -162, -204, 463, -480, 244, 120, -421, 501, -318, -33, 367, -508, 383, -56, -300,
      499, -436, 144, 224, -475, 476, -227, -141, 436, -502, 304, 54, -383, 512, -372, 36,
      319, -506, 428, -125, -244, 486, -472, 210, 162, -450, 501, -289, -75, 400, -515, 360,
      -15, -337, 513, -419, 105, 265, -496, 466, -192, -183, 463, -499, 273, 96, -416, 517,
      -347, -6, 356, -519, 409, -85, -284, 505, -460, 174, 204, -475, 497, -257, -118, 431,
      -518, 333, 27, -373, 524, -399, 64, 304, -513, 453, -154, -225, 487, -493, 240, 139,
      -446, 518, -318, -49, 391, -528, 387, -44, -323, 521, -445, 135, 246, -498, 488, -222,
      -161, 460, -517, 303, 71, -408, 531, -375, 22, 342, -528, 436, -115, -267, 508, -483,
      204, 183, -473, 516, -287, -93, 424, -533, 362, -1, -361, 533, -426, 94, 287, -518,
      477, -185, -204, 486, -513, 270, 115, -440, 534, -348, -21, 379, -539, 415, -73, -307,
      527, -469, 165, 226, -498, 510, -253, -137, 455, -534, 333, 43, -397, 543, -403, 51,
      327, -534, 461, -145, -247, 510, -505, 235, 159, -470, 534, -317, -66, 415, -546, 390,
      -30, -347, 542, -452, 125, 268, -521, 499, -216, -181, 484, -532, 301, 88, -432, 548,
      -377, 7, 366, -548, 442, -103, -289, 530, -493, 196, 203, -497, 529, -284, -111, 448,
      -550, 363, 15, -385, 553, -431, 82, 310, -539, 485, -176, -226, 509, -526, 266, 134,
      -464, 550, -347, -38, 403, -557, 419, -60, -331, 548, -477, 156, 248, -521, 521, -247,
      -157, 479, -549, 331, 61, -421, 561, -406, 37, 351, -555, 468, -135, -269, 532, -516,
      228, 180, -493, 548, -315, -84, 439, -563, 392, -15, -371, 561, -457, 113, 291, -542,
      509, -208, -202, 507, -545, 297, 107, -455, 565, -377, -8, 390, -567, 446, -91, -312,
      552, -501, 188, 225, -520, 542, -279, -130, 472, -565, 362, 32, -409, 571, -434, 68,
      333, -560, 493, -167, -248, 532, -537, 260, 154, -487, 565, -346, -55, 427, -575, 421,
      -45, -354, 568, -483, 145, 270, -543, 531, -240, -177, 502, -563, 329, 79, -445, 578,
      -407, 22, 374, -575, 473, -123, -292, 554, -525, 220, 201, -516, 561, -311, -103, 462,
      -579, 392, 1, -394, 580, -462, 100, 314, -564, 517, -199, -224, 529, -557, 292, 127,
      -479, 580, -376, -25, 414, -585, 449, -77, -336, 572, -509, 178, 247, -542, 553, -273,
      -151, 495, -580, 360, 49, -433, 589, -436, 54, 357, -580, 499, -156, -270, 554, -547,
      253, 175, -510, 578, -342, -73, 451, -592, 422, -30, -378, 587, -489, 133, 293, -565,
      540, -232, -198, 525, -576, 324, 98, -469, 594, -407, 6, 398, -593, 477, -110, -315,
      575, -533, 211, 222, -539, 572, -305, -122, 486, -595, 391, 18, -418, 598, -465, 86,
      337, -584, 524, -189, -246, 552, -568, 286, 147, -502, 594, -374, -43, 438, -603, 451,
      -63, -359, 592, -515, 166, 269, -564, 562, -265, -171, 518, -593, 356, 68, -456, 606,
      -437, 38, 381, -600, 504, -143, -293, 575, -556, 244, 196, -533, 591, -338, -93, 475,
      -608, 421, -14, -401, 606, -492, 120, 316, -586, 548, -223, -220, 547, -587, 319, 118,
      -492, 609, -405, -11, 422, -611, 480, -96, -338, 595, -539, 200, 244, -561, 583, -299,
      -143, 509, -609, 388, 36, -442, 616, -466, 71, 361, -604, 530, -177, -269, 574, -577,
      278, 168, -526, 607, -370, -62, 461, -619, 452, -47, -383, 612, -519, 154, 292, -585,
      571, -257, -193, 541, -605, 352, 87, -480, 621, -436, 22, 404, -618, 507, -130, -316,
      596, -563, 234, 218, -556, 602, -332, -113, 498, -622, 420, 4, -425, 624, -495, 106,
      339, -606, 555, -212, -242, 570, -598, 312, 138, -516, 623, -402, -29, 446, -628, 481,
      -81, -362, 615, -545, 189, 267, -583, 592, -291, -164, 532, -622, 384, 55, -466, 632,
      -466, 56, 385, -623, 534, -165, -292, 595, -586, 269, 189, -548, 620, -365, -81, 485,
      -634, 451, -30, -407, 630, -522, 140, 316, -606, 578, -247, -215, 564, -616, 346, 107,
      -504, 636, -434, 4, 428, -636, 510, -116, -339, 616, -570, 224, 240, -578, 612, -325,
      -133, 522, -636, 417, 22, -449, 641, -496, 90, 363, -626, 560, -200, -265, 591, -607,
      304, 159, -539, 635, -398, -48, 470, -645, 481, -65, -386, 634, -549, 176, 290, -604,
      601, -282, -185, 555, -634, 379, 75, -489, 647, -465, 39, 409, -641, 537, -151, -315,
      616, -593, 259, 211, -571, 631, -359, -101, 509, -649, 449, -12, -431, 648, -524, 126,
      339, -626, 584, -236, -237, 586, -627, 338, 128, -527, 650, -431, -14, 452, -653, 511,
      -100, -363, 636, -575, 212, 263, -600, 621, -317, -154, 545, -649, 412, 41, -473, 657,
      -496, 74, 387, -645, 564, -187, -288, 613, -615, 294, 181, -562, 647, -393, -68, 493,
      -660, 480, -48, -410, 652, -552, 162, 314, -625, 608, -271, -208, 578, -645, 373, 95,
      -513, 662, -463, 21, 433, -659, 539, -136, -339, 636, -599, 248, 234, -593, 641, -352,
      -122, 532, -663, 445, 6, -455, 664, -525, 110, 363, -646, 589, -223, -260, 607, -636,
      330, 149, -550, 662, -427, -33, 476, -669, 510, -84, -387, 655, -579, 198, 286, -621,
      629, -307, -176, 568, -661, 407, 61, -497, 672, -494, 57, 411, -663, 567, -173, -312,
      633, -622, 284, 203, -584, 658, -386, -88, 517, -674, 477, -30, -434, 670, -554, 147,
      337, -645, 614, -260, -230, 600, -654, 365, 116, -537, 675, -459, 2, 457, -676, 540,
      -120, -363, 655, -604, 235, 257, -615, 650, -343, -144, 555, -675, 441, 26, -479, 680,
      -525, 93, 387, -665, 593, -210, -284, 629, -643, 320, 171, -573, 674, -421, -54, 500,
      -684, 509, -66, -411, 673, -581, 184, 310, -642, 636, -297, -199, 590, -672, 400, 82,
      -521, 687, -492, 39, 435, -680, 568, -158, -336, 653, -628, 272, 226, -606, 668, -379,
      -110, 541, -688, 474, -11, -458, 687, -554, 131, 362, -664, 618, -247, -254, 622, -663,
      356, 138, -560, 688, -455, -17, 481, -692, 539, -104, -387, 674, -608, 222, 281, -636,
      657, -333, -166, 578, -687, 435, 46, -503, 696, -523, 76, 412, -683, 596, -196, -308,
      649, -650, 309, 194, -596, 685, -414, -74, 524, -698, 506, -48, -436, 691, -583, 169,
      334, -662, 642, -285, -222, 613, -681, 392, 103, -544, 700, -488, 20, 459, -697, 569,
      -142, -360, 673, -633, 260, 250, -628, 677, -370, -132, 564, -700, 469, 9, -483, 703,
      -554, 114, 386, -683, 622, -234, -277, 643, -671, 347, 160, -583, 700, -449, -38, 505,
      -707, 538, -86, -411, 693, -610, 207, 305, -657, 664, -322, -189, 601, -698, 428, 67,
      -527, 710, -521, 57, 436, -701, 597, -180, -332, 670, -656, 298, 217, -618, 695, -406,
      -96, 548, -712, 502, -29, -460, 708, -583, 153, 358, -681, 647, -272, -246, 634, -690,
      383, 125, -568, 713, -483, 0, 484, -713, 568, -125, -385, 692, -636, 246, 274, -650,
      685, -360, -154, 587, -712, 463, 30, -507, 718, -552, 96, 411, -702, 624, -219, -302,
      664, -678, 336, 183, -606, 710, -442, -59, 529, -721, 535, -67, -436, 710, -612, 192,
      329, -677, 670, -310, -212, 624, -708, 420, 88, -551, 724, -517, 38, 461, -718, 598,
      -164, -356, 689, -661, 285, 241, -640, 703, -397, -118, 571, -725, 497, -9, -485, 724,
      -583, 135, 383, -701, 650, -258, -270, 656, -698, 373, 148, -591, 724, -477, -21, 508,
      -729, 566, -107, -409, 711, -639, 231, 298, -671, 691, -349, -177, 610, -723, 456, 51,
      -531, 732, -549, 77, 435, -719, 626, -203, -326, 684, -683, 323, 207, -628, 720, -434,
      -81, 553, -735, 531, -48, -461, 727, -612, 175, 354, -697, 674, -297, -236, 646, -716,
      411, 111, -574, 736, -512, 18, 485, -734, 597, -146, -381, 709, -664, 271, 265, -662,
      711, -387, -141, 595, -736, 491, 12, -509, 739, -581, 117, 408, -719, 653, -243, -294,
      677, -705, 362, 171, -614, 735, -470, -42, 533, -743, 563, -88, -434, 728, -640, 215,
      323, -691, 697, -337, -201, 633, -733, 448, 73, -555, 746, -545, 58, 460, -737, 626,
      -187, -351, 704, -688, 310, 231, -651, 729, -424, -103, 577, -748, 526, -28, -485, 743,
      -611, 158, 379, -716, 678, -283, -260, 667, -724, 400, 134, -598, 748, -505, -3, 510,
      -749, 595, -128, -406, 727, -667, 256, 290, -683, 718, -375, -164, 618, -747, 484, 34,
      -534, 754, -578, 98, 433, -737, 654, -227, -319, 698, -710, 350, 195, -637, 745, -462,
      -64, 557, -757, 559, -68, -459, 746, -640, 199, 348, -711, 702, -323, -225, 655, -742,
      438, 95, -579, 759, -540, 37, 485, -753, 625, -169, -376, 724, -692, 296, 255, -673,
      737, -414, -126, 601, -760, 519, -6, -510, 759, -609, 139, 404, -735, 680, -268, -285,
      689, -731, 389, 157, -621, 759, -498, -25, 535, -764, 592, -109, -431, 745, -668, 240,
      315, -704, 724, -363, -188, 641, -757, 476, 56, -558, 767, -574, 78, 458, -754, 654,
      -211, -344, 718, -715, 336, 219, -660, 754, -452, -87, 581, -770, 554, -47, -484, 762,
      -639, 181, 373, -731, 705, -309, -250, 677, -749, 428, 119, -603, 771, -534, 16, 510,
      -768, 623, -151, -401, 743, -694, 281, 280, -694, 744, -403, -150, 624, -770, 512, 15,
      -535, 774, -606, 120, 429, -753, 682, -252, -310, 710, -737, 376, 182, -644, 769, -490,
      -47, 559, -778, 588, -89, -457, 763, -668, 223, 340, -724, 728, -350, -213, 664, -766,
      466, 79, -582, 780, -568, 58, 483, -771, 653, -193, -369, 738, -719, 322, 244, -682,
      762, -442, -111, 605, -782, 548, -26, -510, 778, -637, 162, 398, -750, 708, -294, -275,
      699, -756, 416, 143, -627, 782, -526, -6, 535, -783, 620, -131, -427, 761, -695, 265,
      305, -715, 749, -390, -174, 647, -781, 504, 38, -560, 788, -602, 100, 455, -771, 682,
      -235, -336, 730, -741, 363, 206, -667, 778, -480, -70, 584, -791, 583, -68, -482, 779,
      -667, 205, 366, -744, 732, -335, -238, 686, -774, 455, 102, -607, 792, -562, 36, 509,
      -787, 651, -174, -395, 757, -721, 307, 269, -704, 769, -430, -135, 629, -793, 540, -4,
      -535, 793, -634, 143, 424, -768, 709, -277, -300, 720, -762, 404, 167, -650, 792, -518,
      -28, 560, -797, 616, -111, -452, 779, -696, 247, 331, -736, 754, -376, -199, 670, -790,
      494, 61, -584, 801, -597, 79, 480, -788, 681, -217, -361, 750, -745, 348, 231, -690,
      786, -469, -94, 608, -803, 576, -47, -508, 795, -665, 186, 391, -763, 734, -320, -263,
      708, -781, 444, 127, -631, 804, -555, 14, 534, -802, 648, -154, -421, 775, -723, 290,
      295, -725, 775, -417, -159, 652, -803, 532, 19, -560, 807, -630, 122, 450, -786, 709,
      -260, -326, 741, -767, 390, 192, -673, 801, -508, -52, 585, -811, 611, -90, -478, 796,
      -695, 229, 357, -756, 758, -362, -224, 693, -798, 483, 85, -609, 813, -590, 57, 506,
      -804, 679, -198, -387, 770, -748, 333, 257, -712, 793, -458, -118, 632, -814, 569, -24,
      -533, 811, -662, 166, 417, -782, 736, -303, -289, 729, -787, 431, 151, -655, 814, -546,
      -9, 559, -816, 644, -134, -447, 793, -723, 273, 321, -746, 780, -404, -184, 676, -812,
      522, 42, -585, 820, -625, 101, 476, -803, 709, -242, -352, 761, -771, 375, 217, -696,
      809, -497, -76, 610, -823, 605, -68, -504, 812, -693, 210, 383, -776, 761, -346, -250,
      715, -805, 472, 109, -633, 825, -583, 35, 532, -819, 676, -178, -414, 788, -749, 316,
      283, -734, 799, -445, -143, 656, -825, 560, -1, -559, 825, -658, 146, 444, -800, 736,
      -286, -315, 751, -792, 417, 177, -678, 823, -536, -33, 585, -830, 639, -113, -473, 811,
      -722, 255, 347, -766, 784, -389, -210, 699, -821, 512, 66, -610, 833, -619, 79, 502,
      -820, 707, -223, -378, 781, -774, 360, 243, -719, 817, -486, -100, 634, -835, 597, -46,
      -530, 827, -690, 190, 410, -795, 762, -330, -276, 737, -811, 459, 134, -658, 835, -574,
      12, 557, -834, 672, -158, -440, 807, -750, 299, 309, -755, 804, -431, -168, 680, -834,
      551, 23, -584, 839, -653, 124, 470, -818, 736, -268, -341, 771, -796, 403, 202, -701,
      832, -526, -57, 610, -843, 633, -91, -499, 827, -721, 235, 373, -786, 786, -373, -236,
      722, -828, 500, 91, -635, 845, -611, 57, 528, -835, 704, -203, -405, 800, -775, 343,
      270, -741, 823, -473, -126, 658, -846, 589, -22, -556, 842, -686, 170, 436, -813, 763,
      -312, -303, 759, -817, 445, 160, -681, 845, -565, -12, 583, -848, 667, -136, -467, 824,
      -749, 281, 336, -776, 809, -417, -194, 703, -843, 540, 47, -609, 852, -647, 102, 496,
      -834, 734, -248, -368, 791, -799, 387, 229, -724, 840, -514, -82, 635, -854, 625, -68,
      -526, 843, -718, 215, 400, -806, 788, -357, -263, 744, -835, 487, 117, -659, 856, -603,
      33, 554, -850, 700, -182, -432, 819, -776, 326, 296, -763, 828, -459, -151, 683, -855,
      579, 2, -582, 856, -681, 148, 463, -831, 763, -294, -330, 780, -821, 430, 186, -705,
      854, -554, -37, 609, -861, 661, -114, -493, 841, -748, 261, 363, -796, 812, -401, -221,
      726, -851, 528, 72, -634, 864, -640, 79, 523, -851, 732, -228, -395, 811, -801, 370,
      255, -747, 846, -501, -107, 659, -866, 617, -44, -552, 858, -714, 195, 427, -825, 789,
      -339, -289, 766, -840, 473, 142, -684, 866, -593, 9, 580, -865, 695, -160, -459, 837,
      -776, 307, 323, -784, 833, -444, -178, 707, -864, 568, 26, -607, 870, -675, 126, 490,
      -848, 761, -274, -357, 801, -824, 415, 213, -728, 862, -542, -62, 634, -873, 654, -91,
      -520, 858, -745, 241, 390, -816, 814, -384, -248, 749, -858, 515, 98, -659, 875, -631,
      56, 549, -866, 728, -207, -422, 830, -802, 353, 282, -769, 852, -487, -133, 684, -876,
      607, -20, -578, 873, -709, 173, 454, -843, 789, -320, -316, 787, -845, 459, 169, -708,
      875, -583, -16, 606, -878, 689, -138, -486, 855, -774, 288, 350, -805, 836, -429, -204,
      730, -873, 557, 52, -633, 882, -668, 103, 517, -865, 759, -254, -384, 821, -826, 398,
      240, -751, 869, -530, -88, 659, -885, 645, -67, -547, 873, -741, 220, 417, -835, 815,
      -366, -275, 772, -863, 502, 124, -684, 886, -622, 31, 576, -881, 723, -185, -450, 849,
      -802, 334, 309, -791, 857, -473, -160, 708, -885, 597, 5, -604, 886, -703, 150, 482,
      -861, 788, -301, -344, 808, -848, 443, 196, -731, 883, -571, -41, 632, -891, 682, -115,
      -513, 871, -772, 267, 378, -825, 839, -412, -231, 753, -880, 544, 78, -658, 894, -660,
      79, 543, -880, 755, -233, -412, 840, -828, 380, 267, -774, 875, -516, -114, 684, -895,
      636, -43, -573, 888, -737, 198, 445, -854, 815, -348, -302, 794, -868, 487, 150, -709,
      895, -611, 6, 602, -894, 717, -163, -477, 866, -801, 315, 337, -812, 860, -457, -187,
      732, -894, 585, 30, -630, 899, -696, 127, 509, -878, 785, -281, -372, 829, -851, 426,
      223, -755, 890, -558, -67, 658, -903, 674, -91, -540, 887, -769, 246, 406, -845, 840,
      -394, -259, 776, -886, 530, 104, -684, 905, -650, 54, 570, -896, 750, -211, -439, 859,
      -828, 362, 295, -796, 880, -501, -141, 709, -905, 626, -18, -600, 902, -731, 175, 472,
      -872, 814, -328, -330, 815, -872, 471, 178, -733, 904, -600, -19, 628, -908, 710, -139,
      -505, 884, -799, 294, 365, -833, 863, -440, -214, 756, -901, 573, 57, -656, 911, -688,
      103, 536, -894, 782, -259, -400, 849, -852, 408, 251, -778, 897, -545, -94, 683, -914,
      664, -66, -567, 903, -764, 224, 434, -864, 840, -376, -287, 799, -891, 515, 131, -709,
      914, -640, 29, 597, -910, 745, -188, -467, 877, -827, 342, 323, -818, 884, -485, -168,
      733, -914, 614, 8, -626, 916, -724, 152, 500, -889, 812, -308, -358, 836, -875, 454,
      205, -757, 911, -587, -46, 655, -920, 702, -115, -532, 900, -795, 273, 393, -853, 865,
      -422, -242, 779, -908, 559, 83, -682, 923, -679, 78, 564, -909, 778, -237, -428, 868,
      -853, 390, 279, -801, 902, -530, -121, 708, -924, 654, -41, -594, 917, -758, 201, 462,
      -882, 840, -356, -315, 821, -895, 500, 158, -733, 923, -628, 3, 624, -923, 738, -165,
      -495, 895, -825, 322, 351, -839, 887, -469, -196, 758, -922, 601, 35, -653, 928, -716,
      128, 528, -906, 809, -287, -386, 857, -877, 437, 233, -781, 918, -573, -73, 681, -931,
      693, -90, -560, 916, -791, 251, 421, -873, 865, -404, -270, 802, -913, 544, 110, -707,
      933, -668, 53, 591, -924, 772, -215, -456, 887, -852, 370, 307, -823, 907, -514, -148,
      733, -933, 643, -15, -621, 931, -752, 178, 490, -900, 838, -335, -343, 842, -898, 483,
      186, -758, 932, -616, -23, 650, -936, 730, -141, -523, 912, -822, 300, 379, -860, 889,
      -451, -224, 781, -929, 588, 62, -679, 940, -707, 103, 555, -922, 805, -264, -415, 876,
      -878, 418, 261, -804, 924, -559, -100, 706, -942, 683, -65, -587, 931, -786, 228, 450,
      -892, 865, -384, -299, 825, -918, 529, 138, -733, 942, -657, 27, 618, -938, 766, -191,
      -484, 905, -851, 349, 336, -845, 910, -497, -176, 758, -941, 630, 12, -648, 944, -744,
      153, 518, -917, 835, -314, -372, 863, -901, 465, 215, -782, 939, -602, -50, 677, -948,
      721, -116, -551, 928, -818, 278, 408, -880, 890, -432, -253, 805, -935, 573, 89, -705,
      951, -697, 77, 583, -938, 799, -241, -444, 896, -877, 398, 290, -826, 929, -543, -128,
      732, -952, 672, -39, -615, 945, -779, 204, 478, -910, 864, -364, -328, 847, -921, 512,
      166, -758, 951, -645, 0, 645, -951, 758, -166, -513, 923, -848, 328, 364, -866, 912,
      -480, -205, 782, -949, 617, 39, -675, 956, -735, 128, 546, -934, 831, -292, -401, 883,
      -902, 447, 243, -806, 945, -588, -78, 703, -959, 711, -90, -579, 944, -813, 255, 437,
      -900, 890, -413, -281, 828, -940, 558, 117, -731, 960, -686, 51, 611, -952, 793, -218,
      -472, 914, -876, 378, 319, -849, 933, -527, -156, 757, -960, 659, -12, -642, 959, -772,
      180, 507, -928, 861, -342, -357, 868, -924, 494, 195, -782, 959, -631, -27, 672, -964,
      749, -141, -541, 940, -844, 306, 394, -886, 914, -461, -234, 806, -955, 602, 67, -701,
      967, -725, 103, 574, -950, 826, -269, -430, 903, -902, 427, 272, -829, 950, -572, -106,
      729, -969, 700, -63, -607, 959, -807, 231, 466, -919, 889, -392, -311, 850, -944, 541,
      146, -756, 969, -674, 24, 638, -966, 786, -193, -501, 932, -874, 356, 348, -870, 935,
      -509, -185, 782, -968, 646, 16, -669, 971, -763, 154, 536, -945, 858, -320, -386, 889,
      -926, 476, 224, -806, 965, -617, -55, 699, -975, 740, -115, -570, 956, -840, 283, 423,
      -907, 914, -442, -263, 830, -961, 587, 95, -727, 978, -715, 76, 603, -965, 820, -245,
      -459, 922, -901, 407, 302, -852, 954, -556, -135, 755, -978, 688, -36, -635, 973, -800,
      207, 495, -937, 887, -371, -340, 872, -947, 524, 175, -781, 978, -661, -3, 666, -979,
      777, -168, -530, 950, -871, 334, 378, -892, 937, -490, -214, 806, -975, 632, 44, -696,
      983, -754, 129, 564, -961, 853, -297, -415, 910, -926, 456, 253, -830, 971, -602, -84,
      725, -986, 729, -89, -598, 971, -834, 259, 452, -926, 913, -421, -293, 853, -965, 571,
      124, -753, 987, -703, 49, 631, -979, 813, -220, -489, 941, -899, 385, 331, -874, 958,
      -538, -164, 780, -987, 675, -9, -662, 986, -791, 181, 524, -954, 884, -348, -370, 894,
      -949, 505, 204, -806, 985, -646, -32, 693, -991, 768, -142, -559, 966, -866, 311, 408,
      -912, 938, -471, -244, 830, -981, 616, 72, -723, 994, -743, 102, 593, -977, 847, -273,
      -445, 929, -926, 436, 283, -854, 976, -585, -113, 751, -996, 717, -62, -626, 985, -827,
      234, 482, -945, 912, -400, -322, 875, -969, 553, 153, -779, 996, -690, 21, 659, -993,
      805, -195, -518, 959, -896, 363, 361, -896, 960, -520, -193, 805, -994, 661, 19, -690,
      998, -782, 155, 553, -971, 879, -325, -400, 915, -950, 486, 234, -830, 991, -631, -60,
      720, -1002, 757, -115, -588, 982, -861, 287, 437, -932, 938, -450, -274, 854, -986, 600,
      101, -749, 1004, -732, 75, 622, -992, 841, -248, -475, 949, -924, 414, 313, -876, 979,
      -568, -142, 777, -1005, 704, -34, -654, 999, -819, 209, 511, -963, 909, -377, -352, 897,
      -971, 535, 183, -804, 1004, -676, -7, 686, -1005, 796, -169, -547, 976, -892, 340, 391,
      -917, 961, -500, -223, 830, -1001, 646, 48, -717, 1010, -772, 128, 582, -988, 874, -301,
      -430, 935, -950, 465, 264, -854, 996, -615, -89, 747, -1012, 746, -88, -617, 997, -854,
      262, 467, -952, 936, -429, -304, 877, -990, 583, 131, -776, 1013, -719, 47, 650, -1006,
      833, -223, -505, 967, -922, 392, 343, -899, 982, -550, -172, 803, -1013, 690, -5, -682,
      1012, -810, 183, 541, -981, 905, -354, -383, 919, -973, 515, 213, -829, 1010, -661, -36,
      714, -1017, 786, -142, -577, 993, -887, 316, 422, -938, 961, -480, -253, 854, -1006, 630,
      77, -744, 1020, -760, 101, 611, -1003, 868, -277, -460, 955, -949, 444, 294, -878, 1000,
      -598, -119, 773, -1022, 733, -60, -645, 1012, -847, 237, 497, -971, 934, -407, -334, 900,
      -993, 565, 161, -801, 1021, -705, 18, 678, -1019, 824, -197, -534, 985, -918, 369, 374,
      -921, 984, -530, -202, 828, -1020, 675, 24, -710, 1024, -800, 156, 571, -997, 900, -330,
      -413, 940, -973, 495, 243, -854, 1016, -645, -65, 741, -1028, 775, -115, -606, 1008, -881,
      291, 452, -958, 961, -459, -284, 878, -1011, 613, 107, -771, 1030, -748, 73, 640, -1018,
      860, -251, -490, 974, -946, 422, 325, -901, 1004, -579, -149, 800, -1030, 720, -31, -674,
      1025, -838, 211, 528, -989, 931, -384, -365, 922, -995, 545, 191, -827, 1029, -690, -11,
      706, -1031, 814, -170, -564, 1002, -913, 345, 405, -942, 984, -510, -232, 853, -1026, 660,
      53, -738, 1035, -789, 128, 600, -1013, 894, -306, -444, 960, -972, 474, 274, -878, 1021,
      -628, -95, 768, -1038, 762, -86, -635, 1023, -874, 265, 482, -977, 959, -437, -315, 901,
      -1014, 595, 137, -797, 1039, -734, 44, 669, -1031, 852, -225, -520, 992, -943, 399, 356,
      -923, 1006, -560, -180, 825, -1038, 705, -2, -702, 1038, -828, 184, 558, -1006, 926, -360,
      -396, 944, -996, 525, 222, -852, 1035, -674, -41, 734, -1043, 803, -142, -594, 1018, -908,
      320, 435, -962, 984, -489, -263, 877, -1031, 643, 83, -765, 1046, -777, 100, 630, -1029,
      887, -280, -475, 980, -971, 452, 305, -901, 1024, -610, -126, 795, -1047, 749, -58, -664,
      1037, -866, 239, 513, -996, 956, -414, -346, 924, -1017, 575, 168, -823, 1046, -720, 15,
      698, -1044, 842, -198, -551, 1010, -939, 375, 387, -945, 1007, -540, -210, 851, -1044, 689,
      28, -730, 1050, -817, 156, 588, -1023, 921, -335, -427, 964, -996, 504, 253, -877, 1040,
      -658, -71, 762, -1053, 791, -114, -624, 1034, -901, 295, 466, -982, 983, -467, -295, 901,
      -1035, 625, 114, -792, 1055, -764, 71, 659, -1043, 879, -254, -505, 999, -968, 429, 336,
      -924, 1027, -591, -156, 821, -1055, 735, -28, -693, 1050, -856, 212, 544, -1014, 952, -390,
      -377, 946, -1018, 555, 199, -849, 1053, -704, -15, 726, -1056, 832, -170, -581, 1027, -934,
      350, 418, -966, 1007, -519, -242, 876, -1050, 673, 58, -758, 1060, -806, 128, 618, -1039,
      914, -309, -458, 985, -995, 482, 284, -901, 1045, -640, -101, 789, -1063, 778, -85, -653,
      1048, -893, 268, 497, -1002, 980, -444, -326, 925, -1038, 606, 144, -819, 1063, -749, 42,
      688, -1056, 870, -227, -536, 1017, -964, 405, 368, -947, 1029, -571, -188, 847, -1062, 719,
      2, -722, 1063, -846, 184, 574, -1031, 947, -365, -409, 968, -1018, 534, 231, -874, 1059,
      -688, -45, 754, -1067, 820, -142, -611, 1043, -927, 324, 449, -987, 1006, -497, -273, 900,
      -1054, 655, 89, -786, 1070, -793, 99, 647, -1054, 906, -283, -489, 1004, -992, 459, 316,
      -924, 1048, -621, -132, 816, -1071, 764, -55, -683, 1062, -884, 241, 528, -1020, 977, -420,
      -358, 947, -1040, 586, 176, -845, 1071, -734, 12, 717, -1069, 860, -199, -567, 1035, -959,
      380, 399, -969, 1030, -550, -219, 873, -1068, 703, 32, -750, 1074, -834, 156, 605, -1047,
      940, -339, -440, 989, -1018, 512, 262, -899, 1064, -670, -76, 782, -1078, 807, -113, -641,
      1058, -920, 298, 481, -1007, 1004, -474, -305, 924, -1058, 636, 120, -813, 1079, -779, 69,
      677, -1068, 898, -256, -520, 1023, -989, 435, 347, -948, 1050, -601, -164, 843, -1079, 749,
      -25, -712, 1075, -874, 213, 559, -1038, 972, -395, -389, 970, -1041, 565, 207, -871, 1077,
      -718, -19, 746, -1081, 848, -170, -598, 1052, -953, 354, 431, -990, 1029, -528, -251, 898,
      -1073, 685, 63, -778, 1085, -822, 127, 635, -1063, 933, -313, -472, 1009, -1016, 490, 294,
      -924, 1068, -651, -107, 810, -1087, 793, -83, -671, 1073, -911, 271, 512, -1026, 1001, -450,
      -337, 948, -1061, 616, 152, -840, 1087, -764, 39, 707, -1081, 888, -228, -552, 1042, -985,
      410, 379, -970, 1051, -580, -196, 869, -1086, 733, 6, -741, 1087, -863, 185, 590, -1055,
      966, -370, -421, 991, -1040, 543, 239, -896, 1083, -700, -50, 774, -1092, 836, -141, -628,
      1068, -946, 328, 463, -1011, 1028, -505, -283, 923, -1078, 667, 95, -806, 1095, -808, 97,
      665, -1078, 925, -286, -504, 1028, -1013, 466, 326, -947, 1071, -632, -139, 837, -1095, 779,
      -53, -701, 1087, -902, 243, 544, -1045, 997, -426, -369, 970, -1062, 596, 184, -867, 1095,
      -748, 8, 736, -1094, 877, -199, -583, 1059, -979, 385, 412, -992, 1052, -559, -228, 895,
      -1092, 715, 37, -770, 1099, -850, 156, 621, -1072, 959, -343, -454, 1012, -1039, 520, 272,
      -921, 1087, -682, -82, 802, -1102, 823, -111, -659, 1083, -938, 301, 495, -1031, 1025, -481,
      -315, 947, -1081, 647, 126, -834, 1103, -793, 67, 695, -1092, 915, -258, -535, 1047, -1009,
      441, 359, -970, 1073, -611, -171, 864, -1103, 763, -22, -731, 1099, -891, 214, 575, -1062,
      992, -400, -402, 993, -1062, 574, 216, -893, 1101, -731, -23, 765, -1105, 865, -170, -614,
      1076, -973, 358, 444, -1013, 1051, -536, -260, 920, -1097, 697, 68, -798, 1109, -837, 126,
      652, -1087, 952, -316, -486, 1032, -1037, 497, 304, -946, 1091, -663, -114, 830, -1111, 808,
      -81, -689, 1097, -929, 273, 527, -1050, 1022, -457, -348, 970, -1083, 627, 159, -861, 1111,
      -778, 36, 725, -1105, 905, -229, -567, 1065, -1004, 416, 391, -993, 1073, -590, -204, 890,
      -1109, 746, 10, -760, 1111, -879, 185, 606, -1079, 985, -374, -434, 1014, -1062, 552, 248,
      -918, 1106, -713, -55, 794, -1116, 852, -140, -645, 1092, -965, 331, 476, -1034, 1049, -512,
      -293, 945, -1100, 678, 101, -826, 1118, -823, 95, 683, -1102, 943, -288, -518, 1052, -1034,
      472, 337, -970, 1093, -642, -146, 858, -1119, 793, -50, -719, 1111, -919, 244, 559, -1068,
      1017, -431, -381, 993, -1084, 605, 191, -888, 1118, -761, 4, 755, -1117, 893, -200, -599,
      1083, -998, 389, 424, -1015, 1073, -567, -236, 916, -1115, 728, 41, -789, 1122, -866, 155,
      638, -1096, 978, -347, -467, 1035, -1060, 528, 281, -943, 1110, -693, -87, 822, -1125, 838,
      -110, -676, 1107, -956, 303, 509, -1054, 1046, -488, -326, 969, -1103, 658, 133, -854, 1127,
      -807, 64, 713, -1116, 933, -259, -550, 1071, -1029, 447, 370, -993, 1094, -621, -179, 885,
      -1126, 776, -18, -749, 1123, -907, 215, 591, -1086, 1011, -405, -414, 1015, -1084, 583, 224,
      -914, 1123, -743, -28, 784, -1129, 881, -170, -630, 1099, -991, 362, 457, -1036, 1072, -544,
      -270, 942, -1119, 709, 74, -818, 1132, -852, 124, 669, -1111, 970, -319, -499, 1056, -1057,
      504, 315, -968, 1113, -673, -120, 850, -1134, 822, -79, -707, 1121, -946, 275, 541, -1073,
      1041, -463, -359, 993, -1105, 637, 166, -881, 1134, -791, 32, 743, -1129, 921, -230, -582,
      1089, -1024, 421, 403, -1016, 1095, -599, -212, 911, -1132, 758, 14, -779, 1135, -895, 185,
      622, -1103, 1004, -378, -447, 1037, -1083, 560, 258, -940, 1128, -724, -60, 813, -1139, 867,
      -139, -662, 1115, -983, 334, 490, -1057, 1069, -520, -303, 966, -1122, 689, 107, -846, 1141,
      -837, 93, 700, -1126, 960, -290, -532, 1075, -1053, 478, 348, -992, 1115, -652, -153, 878,
      -1142, 806, -47, -737, 1134, -935, 245, 574, -1092, 1036, -437, -393, 1016, -1105, 614, 199,
      -908, 1140, -774, 0, 773, -1141, 909, -200, -614, 1106, -1017, 394, 437, -1038, 1094, -575,
      -245, 937, -1137, 740, 46, -808, 1146, -881, 154, 654, -1119, 996, -350, -480, 1058, -1081,
      535, 291, -965, 1132, -704, -93, 842, -1149, 852, -108, -693, 1130, -974, 306, 523, -1077,
      1065, -494, -336, 991, -1125, 668, 140, -874, 1150, -821, 61, 731, -1139, 949, -261, -565,
      1094, -1049, 452, 381, -1015, 1116, -630, -186, 905, -1149, 789, -15, -767, 1146, -923, 215,
      606, -1109, 1030, -410, -426, 1038, -1105, 591, 233, -935, 1146, -755, -32, 803, -1152, 896,
      -169, -646, 1123, -1009, 366, 470, -1059, 1092, -551, -279, 963, -1141, 720, 79, -837, 1155,
      -867, 123, 686, -1134, 987, -321, -513, 1078, -1077, 510, 325, -989, 1134, -684, -126, 870,
      -1157, 836, -76, -724, 1144, -963, 276, 556, -1096, 1061, -468, -370, 1014, -1126, 646, 173,
      -902, 1157, -804, 29, 761, -1152, 938, -231, -597, 1112, -1042, 425, 415, -1038, 1115, -607,
      -220, 932, -1154, 771, 18, -797, 1158, -910, 185, 638, -1126, 1022, -382, -460, 1060, -1103,
      567, 267, -961, 1150, -736, -65, 832, -1162, 882, -138, -678, 1138, -1001, 337, 503, -1080,
      1089, -526, -313, 988, -1144, 699, 113, -866, 1164, -851, 91, 717, -1149, 977, -292, -546,
      1098, -1073, 484, 359, -1013, 1136, -662, -160, 898, -1164, 819, -44, -755, 1157, -952, 246,
      589, -1114, 1055, -441, -404, 1038, -1126, 623, 207, -929, 1163, -786, -4, 792, -1164, 925,
      -200, -630, 1129, -1035, 398, 449, -1060, 1114, -583, -254, 958, -1159, 751, 51, -827, 1168,
      -896, 153, 670, -1142, 1014, -353, -493, 1081, -1100, 542, 301, -986, 1153, -715, -99, 861,
      -1171, 866, -106, -710, 1153, -991, 308, 537, -1099, 1085, -500, -347, 1012, -1146, 678, 147,
      -894, 1172, -834, 59, 748, -1162, 966, -262, -579, 1117, -1067, 457, 393, -1037, 1136, -639,
      -194, 925, -1171, 801, -11, -785, 1169, -939, 215, 621, -1132, 1048, -414, -438, 1060, -1125,
      599, 241, -955, 1168, -767, -37, 821, -1175, 911, -169, -662, 1145, -1027, 369, 483, -1081,
      1112, -558, -288, 984, -1163, 731, 85, -856, 1178, -881, 121, 702, -1157, 1004, -324, -527,
      1101, -1097, 517, 335, -1011, 1156, -694, -133, 890, -1179, 850, -73, -741, 1167, -980, 278,
      570, -1119, 1080, -474, -381, 1036, -1147, 655, 181, -922, 1179, -817, 26, 779, -1175, 953,
      -231, -612, 1135, -1061, 430, 427, -1060, 1136, -615, -228, 952, -1176, 782, 23, -816, 1181,
      -925, 184, 654, -1149, 1040, -385, -472, 1082, -1123, 575, 276, -981, 1172, -747, -71, 851,
      -1184, 896, -136, -695, 1161, -1018, 340, 517, -1102, 1108, -533, -323, 1009, -1165, 709, 119,
      -885, 1186, -865, 89, 734, -1171, 993, -294, -560, 1120, -1092, 490, 370, -1035, 1157, -671,
      -167, 918, -1186, 832, -40, -772, 1180, -967, 247, 603, -1137, 1073, -446, -416, 1059, -1146,
      632, 215, -949, 1184, -798, -8, 810, -1186, 940, -200, -645, 1152, -1053, 401, 461, -1082,
      1134, -591, -263, 979, -1181, 762, 56, -846, 1191, -910, 152, 687, -1165, 1031, -356, -506,
      1103, -1120, 549, 310, -1007, 1175, -725, -105, 880, -1193, 880, -104, -727, 1176, -1007, 310,
      551, -1122, 1104, -506, -358, 1033, -1167, 687, 153, -914, 1194, -847, 55, 766, -1185, 981,
      -263, -594, 1139, -1086, 462, 404, -1058, 1157, -648, -202, 945, -1193, 813, -7, -803, 1192,
      -954, 215, 637, -1154, 1066, -418, -450, 1082, -1145, 607, 250, -976, 1189, -778, -42, 840,
      -1197, 925, -168, -678, 1168, -1044, 372, 496, -1103, 1131, -565, -298, 1005, -1184, 741, 91,
      -875, 1200, -895, 119, 719, -1180, 1021, -326, -540, 1123, -1116, 522, 345, -1032, 1176, -703,
      -140, 909, -1201, 862, -71, -758, 1189, -995, 279, 584, -1141, 1098, -479, -392, 1057, -1167,
      664, 188, -942, 1200, -829, 22, 797, -1197, 968, -231, -627, 1157, -1079, 434, 439, -1081,
      1156, -623, -237, 972, -1198, 794, 27, -834, 1203, -940, 183, 670, -1171, 1057, -388, -485,
      1103, -1143, 582, 285, -1002, 1193, -757, -76, 870, -1206, 910, -135, -711, 1183, -1034, 342,
      530, -1124, 1127, -539, -333, 1030, -1186, 719, 125, -904, 1208, -878, 86, 751, -1194, 1009,
      -295, -574, 1142, -1110, 495, 380, -1056, 1177, -680, -174, 937, -1208, 844, -37, -790, 1202,
      -983, 247, 618, -1159, 1091, -450, -427, 1081, -1166, 640, 223, -969, 1206, -809, -12, 828,
      -1208, 954, -199, -661, 1174, -1070, 405, 474, -1103, 1154, -598, -272, 999, -1202, 773, 62,
      -864, 1213, -924, 151, 703, -1187, 1048, -358, -519, 1124, -1139, 555, 320, -1028, 1195, -735,
      -111, 899, -1215, 893, -102, -743, 1198, -1023, 311, 564, -1144, 1122, -511, -368, 1054, -1187,
      696, 160, -933, 1215, -860, 52, 783, -1207, 997, -263, -608, 1161, -1104, 467, 415, -1080,
      1177, -656, -210, 965, -1214, 825, -3, -821, 1214, -969, 215, 652, -1176, 1083, -421, -462,
      1103, -1164, 614, 259, -996, 1210, -789, -47, 858, -1219, 939, -166, -694, 1190, -1061, 375,
      509, -1125, 1150, -572, -307, 1025, -1204, 751, 97, -894, 1222, -908, 117, 735, -1202, 1037,
      -328, -554, 1145, -1134, 528, 356, -1053, 1197, -712, -146, 928, -1223, 875, -68, -775, 1211,
      -1011, 280, 599, -1163, 1116, -483, -403, 1078, -1187, 672, 196, -961, 1222, -841, 18, 814,
      -1219, 983, -231, -642, 1179, -1096, 438, 451, -1102, 1175, -631, -245, 992, -1219, 805, 32,
      -852, 1224, -954, 182, 685, -1193, 1074, -391, -497, 1125, -1162, 588, 294, -1022, 1213, -767,
      -82, 888, -1228, 923, -133, -727, 1205, -1050, 344, 543, -1145, 1146, -545, -343, 1050, -1206,
      729, 132, -923, 1230, -890, 83, 768, -1215, 1025, -296, -588, 1164, -1128, 500, 391, -1077,
      1197, -688, -182, 957, -1229, 856, -33, -807, 1224, -998, 247, 633, -1181, 1109, -454, -439,
      1102, -1186, 647, 231, -989, 1227, -820, -17, 845, -1230, 969, -198, -676, 1196, -1087, 408,
      486, -1125, 1173, -605, -281, 1019, -1222, 783, 67, -882, 1234, -938, 149, 718, -1209, 1064,
      -360, -532, 1146, -1157, 561, 330, -1048, 1216, -745, -117, 918, -1236, 906, -99, -760, 1219,
      -1039, 312, 578, -1165, 1140, -516, -379, 1075, -1207, 705, 168, -952, 1237, -872, 49, 800,
      -1228, 1012, -264, -623, 1183, -1121, 471, 427, -1101, 1196, -664, -218, 985, -1235, 836, 2,
      -839, 1235, -983, 215, 667, -1198, 1100, -424, -474, 1124, -1184, 621, 267, -1016, 1231, -799,
      -52, 876, -1240, 953, -165, -710, 1212, -1077, 377, 521, -1146, 1169, -578, -317, 1045, -1225,
      761, 103, -912, 1243, -921, 115, 751, -1223, 1053, -329, -567, 1166, -1152, 533, 366, -1073,
      1217, -721, -153, 947, -1244, 887, -65, -792, 1233, -1026, 280, 613, -1184, 1134, -488, -415,
      1099, -1206, 680, 204, -980, 1242, -852, 14, 832, -1240, 998, -231, -657, 1200, -1113, 441,
      463, -1123, 1194, -638, -254, 1012, -1239, 815, 37, -870, 1246, -968, 181, 701, -1215, 1091,
      -394, -510, 1146, -1180, 594, 304, -1042, 1234, -777, -88, 907, -1249, 936, -131, -743, 1227,
      -1066, 346, 557, -1167, 1164, -550, -353, 1071, -1226, 738, 139, -942, 1251, -903, 80, 784,
      -1237, 1040, -297, -602, 1185, -1146, 504, 402, -1097, 1217, -697, -189, 976, -1250, 868, -29,
      -824, 1245, -1012, 247, 647, -1202, 1126, -458, -451, 1122, -1205, 655, 240, -1008, 1247, -831,
      -22, 863, -1251, 982, -197, -691, 1217, -1104, 411, 498, -1146, 1191, -611, -290, 1039, -1242,
      793, 73, -900, 1255, -951, 147, 734, -1230, 1080, -362, -545, 1167, -1176, 567, 340, -1068,
      1235, -754, -124, 936, -1257, 918, -96, -776, 1241, -1054, 314, 592, -1186, 1158, -521, -389,
      1096, -1226, 713, 175, -971, 1257, -883, 45, 817, -1250, 1026, -264, -637, 1204, -1138, 475,
      438, -1121, 1215, -671, -226, 1004, -1255, 847, 6, -856, 1257, -997, 214, 682, -1219, 1117,
      -427, -486, 1145, -1202, 628, 276, -1035, 1251, -809, -57, 894, -1261, 966, -163, -725, 1233,
      -1093, 379, 534, -1167, 1187, -584, -326, 1065, -1245, 770, 109, -931, 1264, -933, 112, 768,
      -1245, 1068, -330, -581, 1187, -1170, 538, 376, -1093, 1236, -730, -160, 966, -1264, 899, -61,
      -809, 1254, -1041, 281, 627, -1205, 1151, -492, -426, 1120, -1226, 688, 211, -1000, 1263, -863,
      10, 849, -1262, 1012, -230, -672, 1222, -1130, 444, 474, -1144, 1213, -645, -262, 1032, -1259,
      825, 42, -887, 1267, -981, 180, 716, -1236, 1107, -396, -522, 1167, -1198, 600, 313, -1062,
      1253, -787, -94, 925, -1270, 949, -129, -759, 1248, -1082, 347, 570, -1188, 1182, -555, -363,
      1091, -1246, 746, 145, -960, 1271, -914, 77, 801, -1258, 1055, -297, -616, 1206, -1163, 509,
      413, -1118, 1236, -704, -197, 995, -1270, 879, -26, -841, 1266, -1026, 247, 662, -1223, 1142,
      -461, -462, 1143, -1224, 662, 248, -1028, 1267, -842, -26, 881, -1272, 996, -196, -706, 1238,
      -1120, 413, 511, -1166, 1210, -617, -299, 1059, -1262, 803, 78, -918, 1276, -964, 145, 750,
      -1251, 1095, -364, -558, 1188, -1193, 572, 350, -1088, 1255, -763, -130, 955, -1278, 930, -93,
      -792, 1262, -1069, 314, 605, -1207, 1175, -526, -400, 1116, -1246, 721, 182, -990, 1278, -895,
      42, 833, -1271, 1041, -264, -652, 1225, -1155, 478, 450, -1142, 1234, -678, -234, 1023, -1275,
      858, 11, -873, 1277, -1011, 213, 697, -1241, 1133, -430, -499, 1166, -1220, 634, 285, -1055,
      1271, -819, -63, 912, -1282, 979, -162, -741, 1254, -1109, 381, 547, -1188, 1205, -589, -336,
      1085, -1264, 779, 115, -949, 1284, -945, 110, 784, -1266, 1083, -331, -594, 1208, -1187, 543,
      387, -1113, 1255, -738, -167, 984, -1285, 910, -58, -825, 1275, -1055, 281, 641, -1226, 1168,
      -496, -437, 1140, -1244, 695, 219, -1018, 1283, -874, 5, 866, -1282, 1025, -230, -687, 1243,
      -1146, 447, 486, -1165, 1231, -651, -271, 1051, -1279, 835, 47, -905, 1288, -994, 178, 731,
      -1257, 1122, -398, -535, 1187, -1216, 606, 322, -1082, 1273, -796, -100, 943, -1291, 961, -126,
      -775, 1269, -1097, 348, 583, -1208, 1199, -560, -373, 1111, -1265, 755, 152, -979, 1292, -926,
      74, 817, -1279, 1069, -298, -630, 1227, -1180, 513, 424, -1138, 1254, -712, -204, 1014, -1290,
      890, -21, -858, 1287, -1040, 247, 676, -1244, 1159, -465, -474, 1163, -1242, 668, 256, -1047,
      1287, -852, -31, 898, -1293, 1009, -195, -722, 1259, -1136, 415, 523, -1187, 1227, -623, -308,
      1078, -1282, 812, 84, -936, 1297, -976, 143, 766, -1272, 1110, -366, -571, 1208, -1211, 577,
      360, -1108, 1274, -771, -137, 973, -1298, 942, -90, -808, 1283, -1083, 315, 619, -1228, 1192,
      -530, -411, 1136, -1264, 729, 189, -1008, 1298, -906, 38, 850, -1292, 1055, -264, -666, 1246,
      -1171, 482, 461, -1162, 1252, -685, -242, 1042, -1295, 868, 15, -890, 1298, -1024, 212, 712,
      -1261, 1149, -433, -511, 1186, -1238, 640, 294, -1074, 1290, -829, -68, 929, -1302, 991, -160,
      -756, 1275, -1124, 383, 560, -1208, 1222, -594, -346, 1105, -1283, 788, 121, -967, 1305, -957,
      107, 800, -1286, 1097, -332, -608, 1229, -1204, 547, 397, -1133, 1274, -746, -174, 1003, -1305,
      921, -54, -842, 1296, -1069, 281, 655, -1247, 1184, -499, -448, 1160, -1263, 702, 227, -1037,
      1303, -884, 1, 883, -1303, 1039, -229, -701, 1263, -1162, 450, 498, -1185, 1249, -658, -280,
      1070, -1298, 845, 52, -922, 1308, -1007, 177, 746, -1277, 1138, -400, -548, 1208, -1234, 612,
      332, -1101, 1292, -804, -106, 961, -1311, 973, -124, -791, 1290, -1111, 349, 596, -1229, 1216,
      -565, -384, 1130, -1283, 763, 159, -997, 1312, -937, 71, 833, -1300, 1083, -298, -644, 1248,
      -1196, 516, 435, -1158, 1273, -719, -212, 1032, -1310, 900, -17, -875, 1308, -1053, 246, 691,
      -1265, 1175, -467, -485, 1183, -1260, 675, 265, -1066, 1307, -861, -36, 915, -1313, 1022, -193,
      -736, 1280, -1151, 418, 535, -1207, 1245, -629, -318, 1097, -1301, 821, 90, -954, 1317, -988,
      141, 781, -1293, 1125, -367, -584, 1229, -1228, 582, 370, -1127, 1293, -779, -143, 991, -1318,
      953, -87, -825, 1303, -1098, 315, 633, -1248, 1209, -534, -421, 1155, -1283, 736, 197, -1027,
      1317, -916, 34, 867, -1312, 1068, -263, -680, 1266, -1187, 485, 472, -1182, 1270, -692, -250,
      1061, -1314, 878, 20, -908, 1318, -1037, 211, 726, -1282, 1164, -435, -523, 1206, -1256, 646,
      303, -1093, 1309, -838, -74, 947, -1323, 1004, -157, -771, 1295, -1139, 384, 572, -1228, 1239,
      -599, -356, 1124, -1302, 796, 128, -985, 1325, -969, 104, 815, -1307, 1112, -333, -621, 1249,
      -1221, 551, 408, -1153, 1292, -753, -182, 1021, -1324, 932, -50, -858, 1316, -1083, 281, 669,
      -1267, 1200, -502, -459, 1180, -1281, 709, 235, -1056, 1322, -894, -4, 900, -1323, 1052, -228,
      -716, 1284, -1177, 453, 510, -1205, 1267, -663, -288, 1089, -1318, 854, 58, -940, 1328, -1019,
      175, 762, -1298, 1152, -402, -560, 1228, -1251, 617, 341, -1120, 1311, -813, -112, 978, -1331,
      984, -121, -806, 1310, -1126, 350, 609, -1249, 1233, -569, -394, 1150, -1302, 770, 166, -1015,
      1331, -948, 67, 850, -1320, 1097, -298, -658, 1268, -1212, 520, 446, -1177, 1291, -726, -220,
      1051, -1330, 910, -13, -892, 1328, -1067, 245, 705, -1285, 1190, -470, -497, 1203, -1277, 681,
      274, -1084, 1326, -871, -42, 932, -1333, 1034, -192, -751, 1300, -1166, 419, 548, -1227, 1262,
      -634, -327, 1116, -1320, 830, 96, -971, 1337, -1000, 138, 797, -1313, 1140, -368, -597, 1249,
      -1244, 586, 380, -1147, 1311, -787, -150, 1009, -1338, 964, -84, -841, 1324, -1111, 316, 646,
      -1269, 1225, -538, -432, 1175, -1301, 743, 204, -1045, 1337, -926, 29, 883, -1332, 1081, -263,
      -694, 1286, -1203, 488, 484, -1201, 1288, -698, -258, 1079, -1334, 887, 25, -924, 1338, -1049,
      209, 741, -1302, 1179, -437, -535, 1226, -1273, 652, 312, -1112, 1328, -847, -80, 964, -1342,
      1015, -155, -787, 1316, -1153, 385, 585, -1248, 1256, -604, -365, 1143, -1320, 804, 134, -1003,
      1344, -980, 101, 831, -1327, 1126, -333, -634, 1269, -1237, 555, 418, -1172, 1310, -761, -189,
      1039, -1344, 943, -46, -875, 1336, -1096, 280, 683, -1287, 1216, -506, -470, 1199, -1298, 716,
      243, -1074, 1341, -904, -9, 916, -1343, 1064, -227, -730, 1304, -1192, 455, 522, -1224, 1284,
      -669, -297, 1108, -1336, 863, 63, -957, 1348, -1031, 172, 777, -1318, 1167, -403, -573, 1248,
      -1268, 622, 351, -1139, 1329, -821, -118, 996, -1350, 996, -118, -822, 1330, -1140, 351, 622,
      -1269, 1249, -573, -404, 1169, -1320, 778, 173, -1033, 1351, -959, 63, 866, -1340, 1110, -298,
      -671, 1288, -1228, 523, 457, -1197, 1308, -733, -228, 1069, -1349, 920, -8, -908, 1348, -1079,
      244, 719, -1305, 1205, -473, -509, 1223, -1295, 687, 282, -1103, 1344, -880, -47, 949, -1353,
      1046, -190, -766, 1320, -1181, 421, 560, -1247, 1279, -639, -336, 1135, -1338, 838, 102, -989,
      1356, -1011, 135, 812, -1333, 1154, -369, -610, 1269, -1261, 591, 390, -1166, 1329, -795, -157,
      1027, -1357, 975, -80, -856, 1343, -1125, 315, 660, -1289, 1241, -541, -443, 1194, -1318, 750,
      212, -1063, 1356, -936, 25, 900, -1352, 1094, -262, -708, 1306, -1218, 490, 495, -1221, 1305,
      -704, -267, 1098, -1352, 897, 30, -941, 1358, -1061, 207, 756, -1322, 1194, -439, -547, 1246,
      -1290, 657, 321, -1131, 1347, -855, -86, 981, -1362, 1027, -153, -802, 1335, -1168, 386, 598,
      -1268, 1273, -608, -375, 1162, -1338, 812, 141, -1020, 1364, -991, 98, 847, -1347, 1139, -333,
      -648, 1289, -1253, 559, 429, -1191, 1328, -768, -196, 1057, -1363, 953, -42, -891, 1356, -1109,
      279, 697, -1307, 1231, -508, -482, 1219, -1316, 722, 251, -1093, 1360, -913, -13, 933, -1363,
      1077, -225, -745, 1324, -1207, 457, 534, -1244, 1301, -675, -306, 1126, -1355, 872, 69, -974,
      1367, -1043, 170, 792, -1338, 1181, -404, -585, 1267, -1284, 626, 360, -1158, 1347, -829, -125,
      1013, -1370, 1007, -115, -837, 1350, -1153, 351, 636, -1289, 1265, -577, -414, 1188, -1338, 785,
      180, -1051, 1370, -969, 59, 882, -1360, 1124, -297, -685, 1308, -1244, 526, 468, -1216, 1326,
      -739, -236, 1087, -1367, 930, -4, -925, 1367, -1092, 243, 734, -1325, 1220, -475, -520, 1242,
      -1312, 692, 291, -1121, 1363, -889, -52, 966, -1372, 1058, -188, -781, 1340, -1195, 422, 572,
      -1266, 1295, -644, -346, 1154, -1356, 846, 108, -1006, 1375, -1022, 132, 827, -1353, 1168, -369,
      -623, 1288, -1277, 595, 400, -1185, 1347, -802, -164, 1044, -1376, 985, -77, -872, 1363, -1138,
      315, 673, -1308, 1256, -544, -454, 1213, -1336, 757, 220, -1081, 1375, -946, 21, 916, -1371,
      1107, -261, -722, 1326, -1233, 493, 507, -1240, 1322, -710, -275, 1116, -1371, 906, 35, -958,
      1377, -1073, 206, 770, -1342, 1208, -440, -559, 1265, -1307, 662, 330, -1149, 1365, -863, -92,
      999, -1381, 1038, -150, -817, 1355, -1181, 387, 610, -1288, 1289, -613, -385, 1181, -1356, 819,
      148, -1038, 1383, -1001, 94, 863, -1366, 1152, -333, -661, 1308, -1268, 562, 439, -1210, 1346,
      -774, -204, 1075, -1382, 963, -38, -907, 1375, -1122, 279, 711, -1327, 1246, -511, -493, 1238,
      -1333, 728, 260, -1111, 1378, -922, -18, 950, -1382, 1089, -223, -759, 1343, -1222, 459, 546,
      -1263, 1318, -680, -315, 1145, -1373, 880, 75, -991, 1386, -1054, 168, 807, -1357, 1195, -405,
      -598, 1287, -1300, 631, 370, -1177, 1365, -837, -131, 1031, -1389, 1017, -112, -853, 1369, -1167,
      351, 649, -1308, 1281, -580, -425, 1207, -1355, 792, 188, -1069, 1388, -979, 55, 898, -1379,
      1136, -297, -699, 1327, -1259, 529, 479, -1235, 1343, -745, -244, 1105, -1386, 939, 1, -941,
      1386, -1104, 241, 748, -1345, 1235, -477, -532, 1261, -1328, 698, 300, -1140, 1381, -897, -58,
      983, -1392, 1069, -186, -796, 1359, -1209, 424, 584, -1286, 1312, -649, -355, 1172, -1374, 854,
      115, -1023, 1394, -1033, 129, 843, -1372, 1181, -370, -636, 1308, -1293, 599, 410, -1203, 1365,
      -809, -171, 1062, -1395, 995, -73, -888, 1383, -1151, 315, 687, -1328, 1271, -547, -464, 1232,
      -1353, 763, 228, -1099, 1393, -956, 16, 932, -1391, 1119, -259, -736, 1346, -1248, 495, 518,
      -1259, 1339, -716, -284, 1134, -1389, 914, 41, -975, 1396, -1085, 204, 785, -1361, 1223, -442,
      -571, 1284, -1323, 667, 340, -1168, 1383, -871, -98, 1016, -1400, 1049, -147, -832, 1375, -1195,
      388, 623, -1307, 1304, -617, -395, 1199, -1374, 827, 155, -1055, 1401, -1012, 91, 878, -1386,
      1165, -333, -674, 1328, -1284, 566, 450, -1229, 1363, -781, -211, 1093, -1400, 972, -34, -923,
      1395, -1134, 278, 725, -1346, 1261, -513, -504, 1257, -1349, 733, 268, -1129, 1397, -931, -24,
      966, -1401, 1100, -222, -774, 1363, -1236, 460, 557, -1282, 1334, -685, -324, 1163, -1391, 888,
      81, -1008, 1405, -1065, 165, 822, -1377, 1209, -406, -610, 1306, -1316, 635, 380, -1195, 1383,
      -844, -138, 1048, -1407, 1028, -108, -868, 1389, -1180, 351, 662, -1327, 1296, -584, -435, 1226,
      -1372, 798, 195, -1086, 1407, -989, 51, 913, -1398, 1149, -296, -713, 1347, -1274, 532, 490,
      -1254, 1360, -751, -252, 1123, -1404, 948, 6, -957, 1406, -1116, 240, 762, -1364, 1249, -479,
      -544, 1280, -1345, 703, 308, -1158, 1399, -906, -64, 999, -1410, 1081, -183, -811, 1379, -1223,
      425, 597, -1305, 1327, -653, -365, 1191, -1392, 862, 121, -1040, 1413, -1044, 126, 858, -1391,
      1194, -370, -649, 1327, -1308, 602, 420, -1222, 1382, -816, -178, 1079, -1413, 1005, -69, -904,
      1402, -1164, 314, 700, -1347, 1286, -550, -475, 1251, -1370, 769, 236, -1117, 1411, -965, 11,
      948, -1410, 1131, -258, -750, 1365, -1262, 497, 530, -1278, 1355, -721, -292, 1152, -1407, 923,
      46, -991, 1415, -1096, 201, 799, -1380, 1236, -443, -583, 1303, -1339, 671, 349, -1186, 1400,
      -879, -104, 1032, -1419, 1060, -144, -847, 1394, -1208, 388, 636, -1326, 1320, -620, -405, 1218,
      -1391, 834, 162, -1072, 1420, -1022, 87, 894, -1405, 1178, -333, -688, 1347, -1299, 568, 461,
      -1248, 1380, -787, -219, 1110, -1418, 981, -29, -939, 1414, -1146, 276, 738, -1365, 1275, -515,
      -515, 1276, -1366, 739, 276, -1147, 1415, -940, -29, 982, -1420, 1112, -220, -788, 1382, -1250,
      462, 569, -1301, 1350, -689, -333, 1181, -1409, 896, 87, -1024, 1424, -1076, 162, 836, -1396,
      1222, -407, -623, 1325, -1332, 639, 390, -1214, 1400, -851, -145, 1065, -1426, 1038, -105, -883,
      1408, -1193, 351, 675, -1347, 1311, -587, -446, 1244, -1389, 805, 203, -1104, 1425, -998, 47,
      929, -1417, 1161, -295, -726, 1366, -1288, 534, 501, -1273, 1376, -757, -260, 1141, -1422, 957,
      11, -973, 1424, -1127, 238, 776, -1383, 1263, -480, -555, 1299, -1361, 708, 317, -1176, 1417,
      -914, -69, 1016, -1429, 1092, -181, -825, 1398, -1236, 425, 609, -1324, 1343, -657, -374, 1209,
      -1409, 869, 128, -1057, 1432, -1054, 123, 873, -1410, 1207, -370, -662, 1346, -1323, 605, 430,
      -1240, 1399, -823, -186, 1097, -1432, 1015, -65, -919, 1421, -1176, 313, 714, -1366, 1301, -553,
      -486, 1270, -1386, 775, 244, -1134, 1429, -974, 6, 964, -1428, 1143, -256, -764, 1384, -1277,
      499, 541, -1297, 1372, -726, -301, 1170, -1425, 931, 52, -1007, 1434, -1107, 199, 814, -1399,
      1250, -444, -595, 1322, -1354, 675, 358, -1204, 1417, -886, -110, 1049, -1437, 1070, -141, -862,
      1413, -1221, 388, 649, -1345, 1335, -624, -415, 1236, -1408, 840, 169, -1089, 1438, -1031, 83,
      909, -1424, 1191, -332, -701, 1366, -1313, 571, 471, -1266, 1396, -793, -227, 1128, -1436, 990,
      -24, -955, 1432, -1158, 275, 752, -1384, 1290, -517, -527, 1294, -1382, 744, 285, -1164, 1432,
      -948, -34, 999, -1439, 1123, -217, -802, 1401, -1264, 463, 581, -1320, 1366, -694, -342, 1199,
      -1426, 904, 93, -1041, 1442, -1086, 159, 851, -1415, 1235, -407, -635, 1344, -1347, 642, 400,
      -1232, 1417, -858, -152, 1082, -1444, 1048, -101, -899, 1427, -1205, 351, 688, -1365, 1326, -590,
      -456, 1263, -1406, 811, 210, -1121, 1443, -1007, 42, 945, -1436, 1173, -294, -740, 1385, -1303,
      536, 512, -1291, 1392, -762, -268, 1158, -1440, 965, 16, -989, 1443, -1138, 236, 790, -1402,
      1277, -481, -567, 1318, -1377, 712, 326, -1194, 1434, -921, -75, 1033, -1447, 1102, -178, -840,
      1417, -1249, 426, 621, -1342, 1358, -661, -384, 1227, -1426, 876, 134, -1074, 1450, -1064, 119,
      888, -1429, 1220, -370, -675, 1365, -1338, 608, 441, -1259, 1415, -829, -193, 1114, -1450, 1024,
      -61, -935, 1439, -1188, 312, 727, -1385, 1315, -555, -497, 1288, -1403, 780, 252, -1152, 1447,
      -982, 1, 980, -1447, 1154, -255, -778, 1403, -1290, 500, 553, -1315, 1387, -731, -310, 1188,
      -1442, 939, 58, -1024, 1452, -1118, 196, 828, -1418, 1263, -445, -607, 1341, -1370, 679, 368,
      -1222, 1435, -894, -117, 1066, -1455, 1080, -138, -877, 1431, -1234, 388, 661, -1364, 1350, -627,
      -425, 1254, -1425, 847, 176, -1106, 1456, -1041, 79, 924, -1442, 1203, -331, -714, 1385, -1328,
      574, 482, -1285, 1413, -799, -235, 1145, -1454, 999, -20, -970, 1451, -1169, 274, 766, -1403,
      1304, -519, -538, 1313, -1398, 749, 293, -1182, 1450, -956, -40, 1015, -1457, 1134, -215, -817,
      1420, -1277, 464, 593, -1339, 1381, -698, -352, 1217, -1443, 911, 99, -1058, 1461, -1096, 156,
      866, -1434, 1248, -407, -648, 1363, -1362, 646, 409, -1250, 1434, -865, -159, 1099, -1462, 1057,
      -97, -914, 1445, -1217, 350, 701, -1384, 1340, -592, -467, 1281, -1422, 817, 218, -1138, 1461,
      -1016, 38, 960, -1454, 1184, -292, -753, 1404, -1317, 538, 523, -1310, 1408, -767, -277, 1176,
      -1457, 973, 22, -1006, 1461, -1149, 234, 805, -1421, 1291, -483, -579, 1336, -1392, 717, 335,
      -1211, 1451, -929, -81, 1049, -1466, 1113, -175, -854, 1435, -1262, 426, 634, -1361, 1374, -665,
      -393, 1245, -1443, 883, 141, -1091, 1468, -1074, 116, 903, -1448, 1232, -369, -688, 1383, -1353,
      611, 451, -1277, 1432, -835, -201, 1131, -1467, 1033, -56, -950, 1458, -1200, 311, 741, -1404,
      1329, -557, -508, 1306, -1419, 786, 260, -1169, 1464, -991, -4, 996, -1465, 1165, -253, -792,
      1421, -1304, 502, 564, -1334, 1403, -735, -319, 1205, -1459, 946, 64, -1040, 1470, -1129, 194,
      843, -1437, 1276, -445, -620, 1359, -1385, 683, 377, -1240, 1451, -900, -123, 1083, -1473, 1090,
      -134, -892, 1450, -1246, 388, 674, -1382, 1365, -630, -435, 1272, -1441, 853, 183, -1123, 1474,
      -1050, 75, 940, -1461, 1214, -330, -727, 1403, -1342, 576, 493, -1303, 1429, -804, -243, 1162,
      -1471, 1008, -15, -986, 1469, -1180, 272, 780, -1422, 1317, -521, -549, 1331, -1414, 754, 302,
      -1199, 1467, -964, -45, 1031, -1475, 1144, -213, -831, 1438, -1290, 464, 605, -1357, 1396, -702,
      -361, 1235, -1460, 918, 106, -1074, 1479, -1106, 153, 881, -1452, 1261, -407, -660, 1381, -1377,
      649, 419, -1268, 1450, -871, -166, 1116, -1480, 1067, -93, -929, 1464, -1229, 349, 714, -1403,
      1355, -595, -477, 1299, -1438, 822, 226, -1155, 1478, -1025, 33, 976, -1473, 1196, -291, -767,
      1422, -1330, 540, 534, -1328, 1424, -772, -285, 1193, -1474, 981, 27, -1021, 1479, -1160, 232,
      819, -1439, 1304, -484, -591, 1355, -1407, 721, 344, -1229, 1468, -936, -88, 1065, -1484, 1123,
      -172, -869, 1454, -1275, 426, 646, -1379, 1388, -668, -403, 1263, -1459, 889, 148, -1107, 1485,
      -1083, 112, 918, -1466, 1244, -369, -701, 1402, -1367, 614, 461, -1295, 1448, -841, -208, 1148,
      -1485, 1042, -52, -966, 1476, -1211, 310, 754, -1422, 1343, -559, -519, 1324, -1434, 791, 268,
      -1186, 1482, -999, -9, 1012, -1483, 1176, -251, -806, 1440, -1317, 503, 576, -1352, 1418, -740,
      -328, 1223, -1476, 954, 69, -1056, 1488, -1139, 191, 857, -1455, 1289, -446, -632, 1378, -1400,
      687, 387, -1258, 1468, -907, -130, 1099, -1491, 1100, -131, -907, 1468, -1259, 388, 687, -1401,
      1379, -633, -446, 1290, -1457, 859, 191, -1140, 1491, -1059, 70, 955, -1479, 1226, -329, -741,
      1422, -1356, 578, 504, -1321, 1444, -809, -251, 1179, -1489, 1016, -10, -1002, 1487, -1191, 270,
      793, -1440, 1331, -522, -561, 1349, -1429, 758, 311, -1217, 1484, -971, -51, 1047, -1493, 1155,
      -210, -845, 1456, -1303, 465, 617, -1375, 1411, -706, -370, 1252, -1476, 925, 112, -1090, 1496,
      -1116, 150, 895, -1470, 1273, -407, -673, 1399, -1391, 652, 429, -1285, 1466, -877, -173, 1132,
      -1497, 1076, -89, -944, 1482, -1241, 348, 727, -1421, 1369, -597, -488, 1317, -1454, 828, 233,
      -1172, 1495, -1033, 28, 992, -1491, 1207, -289, -781, 1440, -1344, 541, 546, -1346, 1439, -777,
      -294, 1210, -1491, 989, 33, -1037, 1497, -1171, 229, 833>>

\* islandZ = Math.round(islandRadius * Math.sin(islandAngle)), likewise
IslandZ ==
    <<0, 10, -21, 21, -5, -18, 35, -35, 15, 17, -43, 47, -26, -12, 46, -58,
      39, 3, -45, 65, -52, 9, 40, -70, 64, -23, -32, 72, -75, 38, 21, -70,
      84, -53, -7, 65, -90, 68, -9, -57, 93, -81, 26, 45, -93, 93, -44, -30,
      90, -103, 62, 13, -82, 109, -79, 6, 71, -112, 94, -26, -57, 111, -108, 47,
      40, -107, 118, -67, -20, 98, -125, 87, -2, -85, 128, -104, 24, 69, -127, 119,
      -48, -50, 122, -131, 70, 28, -113, 139, -92, -4, 99, -143, 112, -21, -81, 142,
      -128, 47, 60, -137, 142, -72, -37, 127, -151, 96, 11, -112, 156, -117, 17, 94,
      -156, 136, -44, -71, 151, -151, 72, 46, -141, 162, -98, -18, 126, -168, 122, -11,
      -106, 168, -142, 41, 83, -164, 159, -70, -56, 154, -171, 99, 27, -139, 178, -124,
      4, 119, -180, 147, -36, -94, 176, -166, 68, 66, -167, 180, -98, -36, 151, -188,
      126, 3, -131, 191, -151, 31, 106, -188, 171, -64, -77, 179, -187, 96, 45, -164,
      197, -126, -11, 144, -201, 153, -24, -118, 199, -175, 59, 89, -191, 193, -93, -56,
      176, -205, 125, 20, -156, 211, -154, 16, 131, -210, 179, -54, -101, 202, -198, 90,
      67, -189, 212, -124, -30, 169, -219, 154, -8, -143, 220, -181, 47, 113, -214, 203,
      -85, -78, 201, -218, 121, 40, -181, 227, -154, -1, 156, -229, 182, -39, -125, 224,
      -206, 79, 90, -212, 223, -117, -51, 193, -234, 152, 10, -168, 238, -183, 31, 137,
      -234, 208, -73, -102, 223, -228, 112, 63, -205, 241, -149, -21, 181, -246, 182, -22,
      -150, 244, -210, 65, 114, -234, 231, -107, -74, 217, -246, 146, 32, -193, 253, -181,
      13, 163, -253, 211, -57, -127, 245, -234, 101, 87, -229, 251, -141, -43, 205, -260,
      178, -2, -176, 262, -210, 48, 140, -255, 236, -93, -99, 240, -255, 136, 55, -218,
      266, -175, -9, 188, -270, 209, -39, -153, 264, -237, 85, 112, -251, 258, -130, -67,
      230, -272, 171, 20, -201, 277, -207, 28, 166, -274, 238, -77, -125, 262, -261, 123,
      80, -242, 277, -166, -32, 214, -284, 205, -18, -179, 282, -237, 67, 138, -272, 263,
      -115, -93, 253, -281, 160, 44, -226, 290, -201, 6, 192, -290, 236, -57, -152, 282,
      -264, 107, 107, -264, 284, -154, -57, 239, -295, 197, 6, -206, 298, -234, 46, 166,
      -291, 264, -98, -120, 275, -286, 147, 71, -251, 300, -191, -18, 219, -305, 231, -35,
      -179, 300, -263, 88, 134, -286, 288, -138, -84, 263, -304, 185, 31, -232, 311, -227,
      23, 193, -308, 262, -77, -148, 296, -289, 130, 98, -275, 307, -178, -45, 245, -317,
      222, -11, -207, 316, -260, 66, 162, -306, 289, -120, -112, 286, -310, 171, 58, -258,
      322, -217, -2, 221, -323, 256, -54, -177, 315, -288, 110, 127, -297, 312, -163, -73,
      270, -326, 211, 16, -234, 330, -253, 42, 191, -324, 287, -99, -141, 308, -313, 154,
      87, -282, 330, -204, -30, 248, -336, 248, -29, -205, 332, -285, 88, 156, -318, 313,
      -144, -102, 294, -332, 196, 44, -261, 341, -242, 16, 220, -340, 282, -75, -171, 328,
      -313, 133, 117, -306, 335, -187, -59, 274, -346, 236, -2, -234, 347, -278, 63, 186,
      -337, 312, -122, -132, 317, -336, 178, 74, -287, 350, -229, -12, 248, -354, 273, -49,
      -201, 346, -310, 110, 147, -328, 337, -168, -89, 300, -353, 221, 27, -262, 359, -268,
      36, 216, -354, 307, -98, -163, 338, -336, 158, 104, -312, 356, -213, -42, 276, -365,
      262, -21, -231, 362, -303, 85, 178, -348, 335, -146, -120, 324, -358, 203, 58, -289,
      369, -255, 7, 246, -369, 299, -71, -194, 358, -334, 134, 136, -335, 359, -193, -74,
      303, -373, 247, 9, -260, 375, -293, 57, 210, -367, 331, -122, -152, 346, -359, 183,
      90, -315, 376, -239, -24, 275, -381, 287, -43, -225, 375, -328, 108, 168, -357, 358,
      -171, -106, 328, -378, 229, 40, -289, 386, -281, 27, 241, -383, 324, -95, -185, 367,
      -357, 159, 123, -340, 379, -219, -56, 303, -391, 273, -12, -256, 390, -319, 80, 201,
      -377, 355, -146, -139, 352, -380, 209, 73, -317, 394, -265, -4, 271, -396, 313, -65,
      -217, 386, -352, 133, 156, -363, 380, -197, -90, 330, -397, 255, 21, -286, 402, -306,
      50, 233, -394, 348, -119, -173, 374, -379, 185, 107, -343, 399, -246, -37, 301, -407,
      299, -34, -249, 402, -343, 104, 190, -385, 378, -172, -124, 355, -400, 235, 54, -315,
      411, -291, 18, 265, -409, 338, -89, -207, 394, -375, 159, 141, -368, 401, -223, -72,
      329, -414, 282, -1, -281, 415, -332, 74, 224, -404, 372, -144, -159, 379, -401, 211,
      89, -343, 417, -272, -16, 296, -421, 325, -57, -240, 412, -368, 130, 177, -390, 399,
      -199, -107, 357, -419, 261, 34, -312, 426, -317, 41, 257, -420, 363, -114, -194, 401,
      -397, 185, 125, -370, 420, -250, -52, 327, -430, 308, -24, -273, 427, -357, 99, 212,
      -411, 395, -171, -143, 382, -421, 238, 70, -341, 434, -299, 6, 290, -434, 350, -82,
      -229, 420, -391, 156, 161, -394, 420, -226, -88, 355, -437, 288, 12, -306, 440, -343,
      65, 246, -429, 387, -141, -179, 405, -419, 212, 106, -369, 438, -277, -30, 322, -445,
      334, -48, -264, 437, -381, 125, 198, -416, 417, -198, -125, 383, -439, 265, 48, -337,
      449, -325, 30, 281, -445, 375, -108, -216, 427, -414, 183, 144, -395, 440, -253, -67,
      352, -452, 315, -12, -298, 451, -368, 91, 234, -436, 410, -168, -163, 408, -439, 240,
      86, -367, 455, -304, -6, 314, -457, 360, -74, -252, 445, -405, 152, 181, -420, 438,
      -226, -105, 381, -457, 293, 25, -330, 462, -351, 56, 270, -454, 399, -135, -200, 431,
      -435, 211, 124, -395, 458, -281, -44, 346, -467, 342, -37, -287, 461, -393, 118, 219,
      -441, 432, -196, -144, 408, -458, 268, 64, -362, 470, -331, 18, 305, -468, 386, -100,
      -238, 451, -428, 180, 163, -421, 457, -254, -83, 377, -473, 320, 1, -322, 474, -377,
      82, 256, -461, 423, -163, -183, 433, -456, 239, 103, -392, 475, -308, -20, 339, -479,
      368, -64, -275, 469, -417, 146, 202, -444, 453, -224, -123, 406, -476, 296, 40, -355,
      484, -358, 45, 293, -477, 410, -128, -222, 455, -450, 208, 143, -420, 476, -282, -60,
      371, -487, 348, -25, -311, 484, -403, 110, 241, -466, 446, -192, -163, 433, -475, 268,
      80, -387, 490, -336, 5, 329, -490, 394, -91, -260, 475, -441, 175, 183, -445, 474,
      -253, -101, 402, -492, 324, 15, -346, 496, -385, 72, 279, -484, 435, -157, -204, 457,
      -471, 237, 121, -417, 493, -311, -35, 363, -500, 375, -52, -298, 492, -428, 139, 224,
      -468, 467, -221, -142, 431, -493, 297, 56, -379, 504, -364, 32, 316, -499, 420, -120,
      -243, 479, -463, 204, 163, -444, 492, -282, -77, 396, -507, 352, -12, -335, 506, -411,
      100, 263, -489, 458, -186, -184, 457, -491, 267, 98, -411, 509, -339, -9, 353, -511,
      401, -81, -283, 498, -452, 168, 204, -469, 488, -250, -119, 426, -510, 326, 30, -370,
      516, -391, 60, 302, -506, 444, -149, -225, 481, -485, 234, 140, -441, 510, -311, -51,
      387, -520, 380, -40, -321, 514, -436, 130, 245, -492, 480, -216, -162, 455, -509, 296,
      73, -404, 523, -367, 19, 340, -520, 427, -110, -266, 502, -475, 198, 183, -468, 508,
      -280, -94, 420, -525, 354, 3, -358, 526, -418, 89, 286, -511, 468, -179, -204, 481,
      -505, 264, 116, -435, 526, -340, -24, 376, -531, 407, -69, -306, 520, -461, 160, 226,
      -493, 501, -246, -138, 450, -526, 326, 46, -394, 535, -395, 47, 325, -528, 453, -140,
      -247, 504, -497, 228, 160, -465, 526, -310, -68, 411, -538, 383, -26, -345, 535, -444,
      120, 268, -515, 491, -210, -182, 479, -524, 294, 91, -428, 541, -369, 4, 364, -541,
      434, -99, -288, 524, -485, 191, 204, -492, 521, -277, -113, 444, -542, 355, 18, -382,
      546, -423, 77, 309, -533, 477, -171, -226, 504, -518, 259, 135, -459, 542, -340, -41,
      400, -550, 411, -56, -329, 541, -469, 150, 247, -516, 513, -241, -158, 474, -541, 324,
      63, -418, 553, -398, 33, 349, -548, 460, -130, -269, 526, -508, 222, 180, -488, 540,
      -308, -86, 435, -556, 384, -11, -368, 555, -450, 108, 290, -536, 501, -202, -203, 502,
      -537, 290, 109, -452, 557, -370, -12, 388, -560, 438, -86, -311, 546, -493, 182, 225,
      -515, 534, -272, -132, 468, -558, 355, 35, -406, 564, -426, 64, 332, -554, 485, -161,
      -248, 527, -529, 254, 155, -483, 557, -339, -58, 424, -568, 413, -41, -353, 562, -476,
      140, 270, -538, 524, -234, -178, 498, -555, 322, 81, -442, 571, -399, 18, 373, -568,
      465, -118, -292, 548, -517, 214, 202, -511, 553, -304, -105, 459, -572, 385, 5, -392,
      574, -454, 96, 313, -558, 509, -193, -224, 525, -549, 285, 129, -475, 573, -369, -28,
      411, -578, 442, -73, -335, 566, -501, 172, 247, -537, 545, -266, -152, 491, -572, 353,
      52, -430, 582, -428, 50, 356, -574, 491, -150, -270, 549, -539, 246, 176, -506, 571,
      -335, -76, 448, -585, 414, -26, -376, 581, -481, 128, 292, -559, 533, -226, -200, 521,
      -568, 317, 100, -466, 587, -399, 2, 396, -587, 469, -105, -315, 569, -525, 205, 223,
      -534, 565, -299, -125, 483, -587, 384, 22, -416, 592, -457, 82, 337, -578, 516, -183,
      -247, 547, -560, 279, 149, -499, 587, -367, -46, 435, -596, 444, -58, -358, 586, -507,
      161, 270, -559, 555, -259, -173, 514, -586, 349, 71, -454, 599, -429, 34, 379, -594,
      496, -138, -293, 570, -548, 238, 197, -529, 583, -331, -95, 472, -601, 414, -10, -400,
      600, -485, 115, 316, -580, 540, -217, -221, 543, -580, 312, 120, -489, 602, -398, -15,
      420, -605, 472, -91, -338, 590, -532, 194, 245, -556, 575, -292, -145, 506, -601, 381,
      40, -440, 609, -459, 67, 360, -598, 522, -172, -269, 569, -570, 272, 170, -522, 600,
      -363, -65, 459, -612, 444, -42, -382, 606, -511, 149, 293, -580, 563, -250, -194, 537,
      -598, 345, 90, -477, 614, -429, 18, 403, -612, 500, -125, -316, 591, -556, 228, 219,
      -552, 595, -325, -115, 495, -616, 412, 7, -424, 618, -487, 101, 339, -601, 547, -206,
      -244, 565, -590, 305, 140, -513, 616, -395, -33, 444, -622, 474, -76, -362, 609, -537,
      183, 268, -578, 585, -284, -166, 529, -615, 377, 58, -464, 626, -459, 51, 384, -617,
      527, -159, -292, 590, -578, 263, 191, -545, 612, -358, -84, 483, -628, 443, -26, -406,
      624, -515, 135, 316, -601, 571, -241, -216, 560, -609, 339, 110, -501, 629, -427, 0,
      427, -630, 502, -111, -339, 611, -562, 218, 241, -574, 605, -318, -136, 519, -629, 410,
      26, -448, 635, -488, 85, 363, -620, 552, -194, -266, 587, -600, 297, 162, -536, 629,
      -391, -52, 468, -638, 474, -60, -385, 629, -542, 170, 291, -599, 593, -275, -187, 552,
      -627, 372, 78, -487, 641, -458, 34, 408, -636, 530, -146, -315, 611, -586, 253, 213,
      -567, 624, -352, -104, 506, -642, 441, -8, -429, 642, -517, 121, 339, -621, 577, -230,
      -239, 582, -619, 332, 131, -524, 643, -424, -18, 451, -647, 503, -95, -363, 631, -567,
      206, 264, -595, 614, -310, -157, 542, -642, 405, 45, -471, 651, -488, 69, 386, -639,
      557, -181, -289, 608, -608, 288, 183, -558, 641, -386, -71, 491, -654, 473, -43, -409,
      647, -545, 156, 314, -620, 600, -265, -210, 574, -638, 366, 98, -511, 655, -456, 17,
      432, -653, 532, -131, -339, 631, -592, 242, 236, -589, 634, -345, -125, 530, -656, 438,
      10, -453, 659, -518, 105, 363, -641, 582, -217, -262, 604, -628, 323, 152, -548, 656,
      -419, -37, 475, -663, 503, -79, -387, 650, -571, 193, 287, -617, 622, -301, -179, 565,
      -654, 400, 64, -495, 666, -487, 52, 410, -658, 559, -167, -313, 629, -615, 278, 206,
      -581, 651, -380, -92, 515, -668, 470, -25, -433, 664, -547, 141, 338, -640, 606, -254,
      -232, 597, -648, 358, 119, -534, 669, -452, -2, 456, -670, 533, -115, -363, 651, -597,
      229, 259, -611, 643, -336, -147, 553, -669, 434, 30, -477, 675, -518, 89, 387, -660,
      586, -204, -285, 625, -636, 314, 174, -570, 667, -414, -57, 499, -678, 502, -61, -411,
      668, -574, 178, 311, -637, 629, -290, -201, 587, -665, 393, 85, -519, 680, -485, 34,
      435, -675, 561, -152, -337, 649, -621, 266, 228, -603, 661, -372, -113, 539, -682, 467,
      -6, -458, 681, -547, 126, 362, -660, 611, -241, -255, 618, -656, 350, 141, -558, 682,
      -448, -22, 480, -686, 532, -99, -387, 670, -600, 216, 282, -632, 650, -327, -169, 576,
      -681, 428, 50, -501, 690, -516, 71, 412, -678, 589, -190, -309, 646, -643, 303, 197,
      -593, 678, -407, -78, 522, -693, 499, -43, -435, 686, -576, 163, 335, -658, 635, -279,
      -224, 610, -675, 386, 106, -543, 694, -481, 15, 459, -692, 562, -136, -361, 669, -625,
      253, 252, -625, 670, -363, -135, 562, -694, 462, 13, -482, 697, -547, 109, 386, -679,
      615, -228, -279, 640, -664, 340, 163, -581, 693, -442, -42, 504, -701, 531, -81, -411,
      688, -603, 201, 306, -653, 657, -316, -191, 598, -691, 421, 71, -525, 704, -513, 53,
      436, -696, 590, -175, -333, 666, -649, 291, 220, -615, 688, -399, -99, 546, -706, 495,
      -24, -460, 702, -576, 147, 359, -677, 640, -266, -248, 631, -684, 377, 128, -566, 707,
      -476, -5, 483, -708, 561, -119, -385, 688, -629, 240, 276, -646, 678, -353, -157, 585,
      -706, 456, 34, -506, 713, -545, 91, 411, -697, 617, -213, -303, 661, -671, 329, 186,
      -604, 704, -435, -63, 528, -716, 528, -62, -436, 705, -605, 186, 331, -674, 663, -304,
      -215, 621, -701, 413, 92, -549, 718, -509, 33, 460, -713, 591, -158, -357, 686, -654,
      278, 243, -637, 697, -390, -122, 570, -719, 490, -4, -484, 719, -575, 130, 384, -696,
      643, -252, -272, 653, -691, 367, 151, -589, 718, -470, -25, 508, -723, 559, -101, -410,
      706, -632, 225, 300, -667, 685, -342, -180, 608, -717, 449, 55, -530, 727, -542, 72,
      436, -715, 619, -198, -328, 681, -677, 317, 209, -626, 714, -427, -85, 552, -729, 524,
      -43, -461, 722, -605, 169, 355, -693, 668, -291, -239, 643, -710, 404, 114, -573, 730,
      -504, 13, 485, -729, 590, -141, -382, 705, -657, 264, 267, -659, 705, -380, -144, 593,
      -730, 484, 17, -509, 734, -574, 112, 409, -715, 646, -237, -296, 674, -698, 355, 174,
      -612, 729, -463, -47, 532, -738, 556, -83, -435, 724, -633, 209, 324, -688, 690, -330,
      -204, 631, -727, 441, 77, -554, 741, -538, 53, 460, -732, 619, -181, -352, 701, -681,
      304, 233, -648, 723, -418, -107, 576, -742, 519, -23, -485, 739, -604, 152, 380, -713,
      671, -277, -263, 665, -718, 394, 137, -596, 742, -498, -8, 510, -744, 588, -123, -407,
      723, -660, 249, 292, -680, 711, -369, -168, 616, -741, 477, 38, -533, 748, -571, 93,
      434, -733, 647, -221, -321, 695, -704, 343, 198, -635, 739, -455, -69, 556, -751, 552,
      -63, -460, 741, -633, 193, 349, -708, 695, -317, -228, 653, -735, 431, 99, -578, 753,
      -533, 32, 485, -748, 618, -163, -377, 720, -685, 290, 258, -670, 730, -407, -130, 599,
      -754, 512, -2, -510, 754, -602, 134, 405, -731, 673, -262, -287, 686, -724, 382, 161,
      -620, 753, -491, -29, 534, -759, 585, -104, -432, 741, -661, 233, 317, -701, 717, -356,
      -192, 639, -751, 469, 60, -558, 762, -567, 73, 459, -750, 647, -205, -346, 715, -708,
      330, 222, -658, 748, -445, -91, 580, -764, 547, -42, -485, 757, -632, 175, 374, -727,
      698, -302, -252, 675, -743, 421, 123, -602, 765, -527, 11, 510, -764, 616, -145, -403,
      739, -687, 274, 283, -691, 737, -396, -154, 623, -765, 505, 20, -535, 769, -599, 115,
      430, -749, 675, -246, -313, 707, -730, 370, 185, -643, 763, -483, -51, 559, -773, 581,
      -84, -457, 759, -661, 217, 342, -721, 722, -343, -216, 662, -760, 459, 83, -582, 775,
      -561, 53, 484, -766, 646, -187, -371, 734, -712, 315, 247, -680, 756, -435, -115, 604,
      -776, 541, -21, -510, 773, -630, 156, 400, -746, 701, -287, -277, 697, -750, 409, 146,
      -625, 776, -519, -11, 535, -779, 613, -126, -428, 757, -689, 258, 308, -712, 743, -383,
      -178, 646, -775, 497, 42, -559, 783, -595, 94, 456, -767, 675, -229, -338, 727, -735,
      356, 209, -665, 772, -473, -75, 583, -786, 575, -63, -483, 775, -660, 199, 368, -741,
      725, -329, -241, 684, -768, 449, 107, -606, 787, -555, 31, 509, -782, 644, -168, -397,
      753, -714, 300, 272, -701, 763, -423, -139, 628, -787, 533, 1, -535, 788, -627, 137,
      425, -765, 702, -271, -303, 718, -756, 397, 171, -649, 786, -511, -33, 560, -793, 609,
      -106, -454, 775, -689, 241, 333, -733, 748, -370, -203, 669, -784, 487, 66, -584, 796,
      -590, 74, 481, -784, 674, -211, -364, 747, -738, 342, 235, -688, 780, -462, -98, 607,
      -798, 569, -41, -508, 791, -658, 180, 393, -760, 728, -313, -266, 706, -775, 437, 131,
      -630, 798, -547, 9, 534, -797, 641, -149, -423, 772, -716, 284, 298, -723, 768, -410,
      -163, 651, -798, 525, 24, -560, 802, -623, 117, 451, -782, 703, -254, -329, 738, -761,
      383, 196, -672, 795, -501, -57, 585, -806, 604, -85, -479, 792, -688, 223, 359, -753,
      751, -355, -228, 691, -792, 476, 89, -609, 808, -583, 52, 507, -800, 672, -192, -389,
      767, -741, 326, 260, -710, 787, -451, -122, 631, -809, 562, -19, -534, 806, -655, 160,
      419, -779, 729, -297, -292, 727, -781, 424, 155, -654, 809, -539, -14, 560, -812, 637,
      -128, -448, 790, -716, 266, 323, -744, 773, -397, -188, 675, -807, 515, 47, -585, 816,
      -618, 96, 477, -799, 702, -236, -355, 759, -764, 369, 221, -695, 804, -490, -80, 609,
      -818, 597, -63, -505, 808, -686, 204, 385, -773, 754, -340, -254, 714, -799, 465, 114,
      -633, 820, -576, 30, 532, -815, 669, -172, -416, 785, -743, 310, 286, -732, 793, -438,
      -147, 655, -819, 553, 4, -559, 821, -651, 140, 445, -797, 730, -279, -318, 748, -786,
      411, 181, -677, 818, -529, -37, 585, -825, 632, -107, -475, 807, -716, 248, 350, -764,
      777, -382, -214, 698, -815, 505, 71, -610, 828, -612, 74, 503, -816, 700, -217, -381,
      778, -767, 353, 247, -717, 811, -479, -105, 634, -830, 590, -40, -531, 823, -683, 184,
      412, -792, 756, -323, -280, 736, -805, 452, 139, -657, 830, -567, 6, 558, -829, 665,
      -152, -442, 803, -743, 292, 312, -753, 798, -424, -173, 679, -829, 543, 28, -584, 834,
      -646, 118, 472, -814, 729, -261, -344, 769, -790, 396, 206, -700, 826, -519, -62, 610,
      -838, 626, -85, -501, 823, -714, 229, 376, -784, 780, -367, -240, 720, -823, 493, 96,
      -634, 840, -604, 51, 529, -831, 697, -197, -407, 798, -769, 336, 273, -739, 817, -466,
      -130, 658, -840, 581, -17, -557, 838, -679, 164, 438, -810, 756, -306, -306, 757, -810,
      438, 164, -681, 840, -558, -17, 584, -843, 660, -130, -468, 821, -743, 274, 339, -774,
      802, -410, -198, 702, -838, 533, 52, -610, 847, -640, 96, 498, -831, 727, -242, -371,
      789, -793, 380, 232, -723, 834, -507, -86, 635, -850, 618, -62, -527, 839, -711, 209,
      403, -803, 782, -350, -266, 742, -829, 480, 121, -659, 851, -596, 28, 555, -846, 693,
      -176, -434, 816, -770, 319, 300, -761, 823, -452, -156, 682, -850, 572, 7, -582, 852,
      -674, 142, 465, -828, 756, -287, -333, 778, -815, 423, 190, -704, 848, -547, -42, 609,
      -856, 654, -108, -495, 838, -741, 255, 365, -794, 805, -394, -225, 725, -845, 521, 77,
      -635, 859, -633, 74, 524, -847, 725, -222, -398, 809, -795, 363, 259, -745, 841, -494,
      -112, 659, -861, 610, -39, -553, 854, -707, 188, 430, -822, 783, -332, -293, 764, -834,
      466, 147, -683, 861, -586, 4, 581, -861, 688, -154, -461, 834, -769, 300, 326, -782,
      827, -437, -182, 706, -859, 561, 32, -608, 865, -668, 120, 491, -845, 754, -268, -360,
      798, -818, 408, 217, -728, 856, -535, -67, 634, -869, 647, -85, -521, 854, -738, 235,
      392, -814, 807, -377, -251, 748, -852, 508, 102, -660, 870, -624, 50, 551, -862, 721,
      -201, -425, 828, -796, 346, 286, -767, 846, -480, -138, 684, -871, 600, -15, -579, 869,
      -702, 167, 457, -840, 782, -314, -320, 786, -839, 451, 173, -707, 870, -576, -21, 607,
      -874, 682, -132, -488, 851, -768, 281, 354, -803, 830, -422, -208, 729, -867, 550, 57,
      -634, 878, -661, 97, 518, -861, 752, -248, -387, 818, -820, 391, 244, -750, 863, -523,
      -93, 659, -880, 638, -61, -548, 870, -735, 214, 420, -833, 808, -360, -278, 770, -858,
      495, 128, -684, 881, -615, 26, 577, -877, 716, -179, -452, 846, -796, 327, 313, -789,
      851, -466, -164, 708, -880, 590, 10, -605, 882, -696, 144, 484, -858, 781, -294, -347,
      807, -842, 436, 200, -731, 878, -564, -46, 632, -886, 675, -109, -515, 868, -765, 261,
      381, -823, 833, -405, -236, 752, -874, 537, 83, -659, 889, -652, 73, 545, -877, 748,
      -227, -414, 838, -821, 373, 271, -773, 869, -509, -119, 684, -890, 629, -37, -575, 884,
      -730, 192, 447, -851, 808, -341, -306, 792, -862, 480, 155, -709, 890, -604, 1, 603,
      -890, 710, -157, -479, 864, -794, 308, 341, -810, 854, -450, -191, 732, -888, 578, 36,
      -631, 895, -689, 121, 511, -874, 779, -274, -375, 827, -845, 419, 227, -754, 885, -551,
      -72, 658, -898, 667, -85, -542, 884, -762, 240, 409, -842, 834, -387, -263, 775, -880,
      523, 109, -684, 900, -643, 48, 572, -892, 744, -205, -442, 857, -821, 355, 298, -795,
      874, -494, -146, 709, -900, 618, -12, -601, 898, -724, 169, 475, -869, 807, -321, -334,
      814, -866, 464, 182, -733, 899, -592, -25, 629, -903, 703, -133, -507, 881, -792, 287,
      368, -831, 857, -433, -219, 755, -896, 565, 62, -657, 907, -681, 97, 538, -891, 775,
      -253, -403, 847, -846, 401, 255, -777, 891, -537, -99, 683, -909, 657, -60, -569, 899,
      -757, 218, 436, -861, 834, -369, -291, 797, -885, 508, 136, -709, 910, -633, 23, 599,
      -906, 738, -182, -470, 875, -820, 335, 326, -817, 878, -478, -173, 733, -909, 607, 14,
      -627, 912, -717, 146, 502, -887, 805, -301, -362, 834, -869, 447, 210, -757, 906, -580,
      -51, 655, -916, 695, -109, -534, 897, -789, 266, 396, -851, 859, -415, -246, 779, -902,
      552, 89, -683, 918, -672, 72, 565, -906, 771, -231, -431, 866, -847, 383, 283, -800,
      897, -523, -126, 709, -919, 647, -35, -596, 914, -752, 195, 464, -880, 833, -349, -319,
      819, -890, 493, 163, -733, 919, -621, -3, 625, -920, 731, -158, -498, 892, -818, 315,
      355, -838, 881, -461, -201, 757, -916, 594, 40, -654, 924, -709, 122, 530, -903, 802,
      -280, -390, 855, -871, 429, 238, -780, 913, -566, -78, 681, -927, 686, -84, -562, 913,
      -784, 244, 425, -870, 859, -397, -274, 801, -908, 537, 116, -708, 928, -661, 47, 592,
      -921, 765, -208, -459, 885, -846, 363, 311, -822, 901, -507, -153, 733, -928, 636, -9,
      -623, 927, -745, 171, 492, -898, 831, -328, -347, 841, -893, 476, 191, -758, 927, -609,
      -29, 652, -932, 723, -134, -525, 909, -815, 293, 383, -858, 883, -444, -229, 781, -923,
      581, 67, -680, 936, -700, 97, 558, -919, 798, -258, -418, 874, -872, 411, 266, -803,
      919, -552, -105, 707, -937, 676, -59, -589, 928, -779, 221, 453, -889, 859, -377, -303,
      824, -912, 521, 143, -733, 938, -650, 21, 620, -935, 759, -184, -487, 903, -844, 342,
      340, -843, 904, -490, -181, 758, -936, 623, 18, -649, 940, -737, 147, 521, -915, 829,
      -307, -376, 861, -895, 458, 219, -782, 934, -595, -56, 678, -944, 714, -109, -553, 925,
      -811, 271, 412, -878, 884, -425, -257, 804, -929, 566, 95, -706, 946, -690, 71, 585,
      -934, 793, -235, -447, 894, -871, 391, 294, -826, 923, -536, -133, 732, -947, 664, -33,
      -616, 942, -773, 198, 481, -908, 857, -356, -332, 846, -916, 505, 171, -758, 946, -638,
      -6, 647, -948, 751, -160, -515, 920, -842, 321, 368, -864, 907, -473, -210, 782, -944,
      610, 45, -676, 952, -728, 122, 549, -931, 825, -285, -405, 882, -896, 439, 248, -805,
      940, -581, -84, 704, -955, 704, -84, -581, 941, -806, 248, 440, -898, 884, -405, -286,
      827, -934, 550, 122, -731, 956, -679, 45, 613, -949, 786, -211, -475, 912, -870, 371,
      323, -848, 927, -519, -161, 757, -956, 652, -6, -644, 955, -765, 173, 510, -925, 855,
      -335, -361, 867, -918, 487, 200, -782, 954, -624, -33, 673, -960, 742, -135, -544, 937,
      -838, 299, 397, -885, 908, -454, -239, 806, -950, 595, 72, -702, 963, -718, 96, 577,
      -947, 820, -262, -434, 901, -896, 420, 277, -828, 945, -565, -112, 730, -965, 693, -57,
      -609, 955, -800, 224, 469, -917, 883, -385, -315, 850, -938, 534, 151, -757, 965, -667,
      18, 640, -962, 779, -186, -504, 930, -868, 349, 353, -869, 930, -502, -190, 782, -963,
      639, 21, -671, 968, -756, 148, 538, -942, 851, -313, -390, 888, -920, 468, 229, -806,
      960, -610, -61, 700, -971, 733, -109, -572, 953, -833, 276, 426, -905, 908, -434, -268,
      829, -955, 580, 101, -728, 973, -707, 70, 605, -962, 814, -238, -463, 921, -895, 399,
      306, -851, 949, -548, -140, 755, -974, 681, -30, -637, 969, -793, 200, 498, -935, 880,
      -364, -344, 871, -941, 516, 180, -782, 973, -653, -10, 668, -975, 770, -161, -533, 947,
      -864, 327, 382, -890, 931, -483, -219, 806, -970, 624, 49, -697, 979, -747, 122, 567,
      -958, 846, -290, -419, 908, -920, 449, 258, -830, 966, -594, -89, 726, -982, 722, -82,
      -600, 968, -827, 252, 456, -924, 907, -414, -297, 852, -960, 563, 129, -754, 983, -695,
      43, 633, -976, 807, -213, -492, 939, -893, 378, 336, -873, 952, -531, -169, 781, -982,
      668, -3, -664, 982, -784, 175, 527, -952, 877, -341, -374, 893, -943, 498, 209, -806,
      980, -639, -38, 695, -987, 761, -135, -562, 964, -860, 304, 412, -911, 932, -464, -249,
      830, -976, 609, 78, -724, 990, -736, 95, 596, -974, 841, -266, -449, 928, -920, 428,
      288, -853, 970, -578, -118, 752, -992, 710, -55, -628, 982, -820, 227, 485, -943, 906,
      -392, -327, 875, -963, 546, 158, -780, 991, -682, 15, 661, -989, 798, -188, -521, 957,
      -890, 356, 366, -895, 954, -512, -199, 806, -990, 654, 26, -692, 994, -775, 149, 556,
      -969, 873, -318, -404, 914, -944, 478, 239, -830, 986, -624, -66, 722, -998, 750, -108,
      -591, 979, -854, 280, 441, -931, 932, -443, -278, 854, -981, 593, 107, -750, 1000, -724,
      68, 624, -989, 834, -241, -478, 947, -918, 407, 318, -876, 974, -561, -148, 778, -1000,
      697, -28, -657, 996, -812, 202, 515, -961, 903, -370, -357, 897, -966, 527, 188, -805,
      999, -668, -13, 688, -1002, 789, -162, -550, 974, -886, 333, 396, -916, 955, -493, -228,
      830, -996, 639, 54, -719, 1006, -765, 122, 585, -985, 867, -294, -434, 934, -944, 458,
      269, -854, 991, -608, -95, 748, -1008, 739, -81, -619, 994, -847, 255, 471, -950, 930,
      -422, -309, 877, -985, 575, 136, -777, 1009, -712, 40, 652, -1002, 826, -216, -508, 965,
      -915, 385, 348, -898, 977, -542, -177, 804, -1008, 683, 1, -684, 1009, -803, 176, 544,
      -978, 899, -347, -387, 918, -967, 508, 218, -830, 1005, -653, -42, 716, -1013, 779, -135,
      -580, 990, -881, 309, 426, -936, 955, -473, -259, 854, -1001, 622, 83, -746, 1016, -753,
      94, 614, -1000, 861, -269, -464, 953, -942, 436, 299, -877, 995, -590, -125, 775, -1017,
      726, -53, -648, 1009, -840, 230, 501, -969, 928, -399, -339, 899, -988, 557, 166, -802,
      1017, -698, 12, 680, -1015, 817, -190, -538, 983, -912, 362, 378, -920, 978, -523, -207,
      829, -1015, 668, 30, -712, 1021, -793, 149, 574, -995, 894, -323, -417, 939, -967, 488,
      248, -854, 1011, -637, -71, 743, -1024, 767, -108, -609, 1006, -874, 284, 456, -956, 955,
      -451, -289, 878, -1006, 605, 113, -772, 1026, -741, 66, 643, -1015, 853, -244, -494, 972,
      -940, 414, 329, -900, 998, -572, -155, 801, -1026, 712, -25, -676, 1022, -831, 204, 531,
      -987, 924, -376, -369, 921, -989, 538, 196, -828, 1024, -683, -17, 708, -1028, 807, -163,
      -567, 1000, -907, 338, 409, -941, 979, -502, -238, 853, -1021, 652, 59, -740, 1032, -782,
      121, 603, -1011, 888, -298, -448, 959, -966, 466, 279, -878, 1016, -620, -101, 770, -1034,
      755, -80, -638, 1020, -867, 258, 486, -976, 953, -429, -320, 901, -1009, 587, 143, -799,
      1034, -727, 38, 672, -1028, 845, -218, -524, 991, -937, 391, 360, -923, 1000, -553, -185,
      826, -1033, 698, 4, -704, 1034, -821, 177, 561, -1004, 920, -352, -400, 943, -990, 518,
      227, -853, 1030, -667, -47, 736, -1039, 796, -135, -597, 1016, -901, 313, 440, -961, 978,
      -481, -269, 878, -1026, 635, 89, -767, 1042, -770, 93, 632, -1026, 881, -273, -479, 979,
      -965, 444, 310, -901, 1019, -602, -132, 796, -1043, 742, -51, -667, 1034, -859, 232, 517,
      -994, 949, -406, -351, 923, -1011, 568, 174, -824, 1042, -712, 8, 700, -1041, 835, -191,
      -554, 1008, -933, 367, 391, -944, 1001, -533, -216, 851, -1040, 682, 34, -732, 1046, -810,
      149, 591, -1020, 914, -328, -431, 964, -990, 496, 258, -877, 1035, -650, -77, 764, -1049,
      784, -107, -627, 1031, -894, 287, 470, -981, 977, -459, -300, 901, -1030, 617, 120, -794,
      1051, -756, 64, 662, -1040, 872, -246, -509, 997, -962, 421, 341, -924, 1022, -583, -162,
      822, -1051, 727, -22, -695, 1047, -849, 205, 547, -1012, 945, -382, -382, 945, -1013, 548,
      205, -850, 1049, -697, -21, 728, -1053, 825, -163, -584, 1025, -927, 342, 422, -965, 1001,
      -512, -247, 876, -1045, 665, 64, -760, 1057, -798, 121, 621, -1036, 907, -302, -462, 984,
      -989, 474, 289, -901, 1040, -632, -107, 791, -1059, 771, -78, -656, 1046, -886, 261, 501,
      -1000, 974, -436, -331, 924, -1032, 598, 150, -820, 1059, -742, 35, 691, -1053, 863, -219,
      -540, 1016, -958, 397, 372, -946, 1023, -563, -193, 848, -1058, 712, 8, -724, 1060, -839,
      177, 578, -1029, 940, -357, -413, 967, -1013, 527, 236, -875, 1055, -680, -52, 756, -1064,
      813, -135, -614, 1041, -921, 317, 454, -986, 1000, -489, -279, 901, -1050, 647, 95, -788,
      1067, -785, 92, 650, -1051, 900, -276, -493, 1003, -986, 451, 321, -925, 1043, -613, -138,
      818, -1067, 757, -48, -685, 1059, -877, 234, 532, -1019, 970, -412, -363, 947, -1034, 578,
      182, -846, 1066, -727, 5, 719, -1066, 853, -191, -570, 1033, -953, 372, 404, -968, 1024,
      -542, -225, 874, -1064, 695, 39, -752, 1071, -827, 149, 608, -1045, 934, -332, -445, 988,
      -1012, 505, 268, -900, 1059, -662, -82, 784, -1074, 800, -106, -644, 1056, -913, 290, 485,
      -1006, 998, -467, -310, 924, -1053, 629, 126, -815, 1075, -771, 62, 680, -1065, 891, -248,
      -524, 1022, -983, 427, 353, -948, 1045, -593, -170, 844, -1075, 741, -18, -715, 1072, -867,
      206, 563, -1037, 966, -388, -394, 969, -1035, 557, 213, -872, 1073, -710, -26, 748, -1078,
      841, -163, -601, 1050, -947, 347, 436, -989, 1023, -520, -257, 899, -1069, 678, 70, -780,
      1081, -814, 120, 638, -1061, 926, -305, -476, 1008, -1010, 482, 300, -924, 1063, -644, -114,
      812, -1083, 786, -76, -674, 1070, -904, 263, 516, -1025, 995, -443, -342, 948, -1055, 609,
      158, -841, 1083, -756, 32, 709, -1078, 881, -221, -556, 1040, -978, 403, 384, -970, 1046,
      -573, -202, 870, -1082, 725, 12, -743, 1084, -856, 177, 594, -1054, 960, -362, -426, 991,
      -1035, 535, 245, -897, 1078, -693, -57, 776, -1088, 829, -134, -632, 1065, -940, 320, 467,
      -1010, 1022, -497, -289, 923, -1073, 659, 101, -808, 1091, -801, 90, 668, -1076, 918, -278,
      -508, 1027, -1007, 458, 332, -947, 1066, -624, -145, 839, -1091, 771, -46, -704, 1084, -895,
      235, 548, -1043, 991, -418, -374, 970, -1057, 588, 190, -868, 1090, -740, 1, 739, -1090,
      870, -192, -587, 1057, -973, 377, 417, -992, 1046, -551, -234, 896, -1087, 708, 43, -772,
      1095, -843, 148, 625, -1070, 953, -336, -458, 1011, -1033, 513, 277, -922, 1082, -674, -88,
      804, -1098, 815, -104, -662, 1080, -931, 293, 499, -1030, 1019, -474, -321, 947, -1076, 639,
      133, -835, 1099, -786, 60, 698, -1089, 908, -250, -539, 1046, -1003, 433, 364, -971, 1067,
      -603, -177, 865, -1099, 755, -15, -733, 1097, -884, 207, 579, -1061, 985, -393, -407, 992,
      -1057, 566, 222, -894, 1096, -723, -30, 767, -1102, 858, -163, -618, 1074, -966, 351, 449,
      -1013, 1045, -528, -266, 921, -1092, 690, 75, -800, 1105, -830, 118, 655, -1085, 945, -308,
      -490, 1032, -1031, 489, 310, -946, 1086, -655, -120, 832, -1107, 801, -74, -692, 1095, -922,
      265, 531, -1049, 1015, -449, -353, 970, -1078, 619, 165, -862, 1107, -770, 29, 728, -1102,
      898, -222, -571, 1064, -998, 408, 397, -993, 1068, -582, -210, 891, -1105, 738, 16, -763,
      1108, -872, 178, 610, -1078, 979, -366, -439, 1014, -1056, 544, 254, -919, 1101, -705, -62,
      796, -1112, 844, -133, -649, 1089, -958, 324, 481, -1033, 1043, -505, -299, 945, -1095, 670,
      107, -828, 1115, -815, 88, 686, -1100, 936, -280, -522, 1051, -1028, 465, 343, -970, 1088,
      -634, -152, 859, -1115, 785, -43, -722, 1108, -912, 237, 563, -1067, 1011, -424, -386, 993,
      -1079, 597, 198, -889, 1114, -753, -3, 757, -1114, 886, -192, -603, 1081, -992, 382, 429,
      -1015, 1067, -559, -243, 917, -1110, 720, 48, -791, 1119, -859, 148, 641, -1094, 972, -339,
      -472, 1035, -1054, 520, 287, -944, 1105, -686, -94, 824, -1122, 830, -102, -679, 1104, -949,
      296, 513, -1053, 1040, -480, -332, 969, -1098, 650, 140, -856, 1123, -800, 57, 716, -1113,
      926, -252, -554, 1070, -1023, 439, 376, -993, 1089, -613, -185, 886, -1122, 768, -11, -752,
      1120, -900, 207, 595, -1084, 1005, -397, -419, 1015, -1078, 575, 230, -915, 1119, -735, -35,
      787, -1126, 873, -162, -634, 1098, -985, 355, 462, -1036, 1066, -536, -276, 942, -1114, 701,
      81, -820, 1129, -845, 117, 672, -1109, 963, -311, -504, 1055, -1051, 496, 320, -968, 1108,
      -666, -126, 852, -1130, 815, -71, -710, 1118, -939, 267, 546, -1072, 1035, -455, -365, 993,
      -1100, 629, 172, -883, 1130, -784, 25, 746, -1126, 914, -222, -586, 1087, -1017, 413, 409,
      -1016, 1089, -591, -218, 913, -1128, 751, 21, -781, 1132, -888, 177, 626, -1101, 998, -370,
      -452, 1037, -1077, 552, 264, -941, 1124, -717, -67, 815, -1136, 860, -132, -665, 1113, -976,
      327, 495, -1056, 1063, -512, -309, 967, -1118, 681, 113, -848, 1138, -830, 86, 703, -1123,
      953, -282, -537, 1074, -1047, 471, 354, -992, 1110, -644, -159, 880, -1138, 799, -40, -740,
      1131, -928, 238, 578, -1090, 1030, -429, -398, 1016, -1100, 607, 206, -910, 1136, -766, -7,
      776, -1138, 902, -192, -618, 1105, -1011, 386, 442, -1037, 1088, -568, -251, 938, -1133, 732,
      53, -811, 1142, -874, 147, 658, -1117, 990, -342, -485, 1058, -1075, 527, 297, -966, 1127,
      -697, -100, 844, -1145, 845, -101, -696, 1128, -967, 298, 527, -1076, 1059, -486, -342, 991,
      -1120, 660, 146, -876, 1146, -814, 54, 734, -1137, 942, -253, -569, 1093, -1042, 444, 387,
      -1015, 1110, -622, -193, 907, -1145, 781, -7, -770, 1144, -916, 208, 610, -1108, 1023, -402,
      -431, 1038, -1099, 583, 239, -936, 1142, -747, -39, 806, -1149, 889, -162, -650, 1121, -1003,
      358, 475, -1059, 1086, -543, -285, 964, -1137, 712, 86, -840, 1152, -859, 115, 689, -1132,
      980, -314, -518, 1078, -1071, 502, 331, -990, 1130, -676, -133, 872, -1153, 829, -69, -727,
      1142, -956, 269, 560, -1095, 1055, -460, -376, 1015, -1121, 638, 180, -903, 1153, -796, 22,
      764, -1149, 931, -223, -602, 1111, -1036, 417, 421, -1038, 1110, -599, -226, 933, -1150, 763,
      25, -800, 1155, -903, 177, 642, -1124, 1016, -374, -465, 1059, -1098, 559, 273, -962, 1146,
      -728, -72, 835, -1159, 874, -130, -682, 1136, -994, 329, 508, -1079, 1083, -518, -319, 989,
      -1139, 692, 120, -868, 1161, -844, 84, 721, -1146, 970, -284, -551, 1097, -1067, 476, 365,
      -1014, 1131, -654, -167, 900, -1161, 812, -36, -758, 1155, -945, 238, 593, -1113, 1049, -433,
      -410, 1038, -1121, 615, 214, -930, 1159, -778, -11, 794, -1161, 918, -192, -634, 1128, -1029,
      390, 454, -1060, 1109, -575, -260, 959, -1155, 743, 58, -830, 1165, -889, 146, 674, -1140,
      1007, -345, -498, 1080, -1095, 534, 307, -987, 1149, -707, -106, 863, -1168, 859, -98, -713,
      1151, -984, 300, 542, -1099, 1079, -492, -353, 1013, -1141, 670, 153, -896, 1168, -827, 51,
      752, -1160, 959, -254, -584, 1116, -1061, 449, 398, -1037, 1131, -631, -201, 927, -1167, 794,
      -4, -789, 1167, -932, 208, 626, -1131, 1042, -406, -444, 1060, -1120, 591, 248, -957, 1163,
      -759, -44, 824, -1172, 903, -161, -666, 1144, -1020, 361, 488, -1081, 1106, -550, -295, 985,
      -1158, 723, 92, -859, 1175, -873, 114, 706, -1155, 997, -316, -532, 1100, -1091, 508, 341,
      -1012, 1151, -686, -140, 892, -1176, 842, -66, -745, 1164, -973, 270, 575, -1118, 1074, -466,
      -387, 1037, -1142, 647, 187, -924, 1175, -809, 18, 782, -1172, 946, -223, -617, 1133, -1054,
      422, 433, -1060, 1130, -607, -235, 954, -1172, 775, 30, -819, 1178, -918, 176, 658, -1147,
      1034, -377, -478, 1081, -1117, 567, 282, -983, 1167, -739, -78, 854, -1181, 888, -129, -698,
      1159, -1011, 332, 522, -1101, 1103, -525, -329, 1010, -1160, 702, 126, -887, 1183, -857, 81,
      738, -1169, 986, -286, -565, 1119, -1086, 482, 375, -1036, 1152, -663, -174, 920, -1183, 824,
      -33, -776, 1177, -960, 239, 608, -1136, 1067, -438, -421, 1059, -1141, 623, 222, -951, 1180,
      -790, -15, 813, -1183, 933, -192, -650, 1150, -1047, 393, 467, -1082, 1129, -583, -269, 980,
      -1176, 754, 64, -848, 1188, -903, 144, 691, -1163, 1024, -348, -512, 1102, -1114, 541, 317,
      -1008, 1170, -717, -112, 883, -1190, 872, -96, -730, 1173, -1000, 302, 556, -1121, 1098, -498,
      -364, 1034, -1162, 679, 160, -916, 1190, -840, 48, 769, -1182, 974, -255, -599, 1138, -1080,
      454, 410, -1059, 1152, -640, -209, 947, -1189, 806, 1, -807, 1189, -947, 208, 641, -1153,
      1059, -409, -456, 1082, -1140, 599, 256, -977, 1185, -770, -49, 843, -1194, 918, -160, -682,
      1166, -1038, 364, 501, -1103, 1126, -557, -304, 1006, -1179, 733, 98, -878, 1197, -887, 112,
      723, -1178, 1014, -318, -546, 1122, -1110, 514, 351, -1033, 1172, -695, -147, 911, -1198, 855,
      -63, -762, 1187, -988, 271, 589, -1140, 1092, -470, -398, 1058, -1162, 656, 195, -943, 1196,
      -821, 14, 800, -1194, 961, -223, -632, 1156, -1072, 426, 445, -1081, 1150, -615, -243, 974,
      -1193, 786, 35, -837, 1200, -933, 175, 674, -1169, 1051, -380, -490, 1103, -1137, 573, 291,
      -1003, 1188, -749, -84, 872, -1203, 902, -127, -715, 1181, -1027, 334, 535, -1123, 1121, -531,
      -339, 1031, -1181, 711, 132, -907, 1205, -870, 78, 755, -1191, 1002, -287, -579, 1142, -1104,
      487, 386, -1057, 1172, -672, -181, 939, -1204, 837, -29, -793, 1199, -976, 239, 623, -1158,
      1085, -442, -433, 1081, -1161, 631, 230, -971, 1202, -801, -20, 831, -1206, 947, -191, -665,
      1172, -1064, 396, 479, -1103, 1148, -590, -278, 1001, -1197, 765, 69, -867, 1210, -917, 143,
      707, -1185, 1041, -350, -525, 1124, -1133, 547, 327, -1029, 1191, -727, -118, 902, -1212, 885,
      -94, -747, 1196, -1016, 303, 569, -1143, 1116, -503, -374, 1055, -1182, 688, 167, -935, 1212,
      -852, 45, 786, -1204, 990, -255, -613, 1160, -1097, 458, 421, -1080, 1172, -648, -217, 967,
      -1210, 817, 5, -824, 1211, -962, 207, 656, -1175, 1077, -413, -468, 1103, -1159, 606, 265,
      -997, 1206, -781, -54, 861, -1216, 932, -158, -698, 1188, -1054, 366, 514, -1125, 1145, -563,
      -314, 1026, -1200, 743, 104, -897, 1218, -900, 109, 739, -1200, 1030, -319, -559, 1144, -1128,
      520, 362, -1054, 1192, -704, -153, 931, -1219, 867, -60, -779, 1209, -1004, 272, 604, -1162,
      1110, -475, -410, 1079, -1182, 664, 203, -963, 1218, -833, 10, 818, -1216, 976, -223, -647,
      1178, -1090, 429, 457, -1103, 1170, -623, -252, 994, -1214, 797, 39, -855, 1222, -947, 174,
      690, -1191, 1068, -383, -503, 1125, -1156, 580, 301, -1024, 1209, -759, -89, 891, -1225, 915,
      -125, -731, 1203, -1044, 336, 549, -1145, 1140, -536, -349, 1051, -1201, 720, 139, -926, 1226,
      -883, 75, 772, -1213, 1018, -288, -594, 1163, -1122, 492, 397, -1078, 1192, -680, -189, 959,
      -1225, 848, -26, -811, 1221, -990, 239, 638, -1180, 1102, -446, -445, 1102, -1181, 639, 238,
      -991, 1223, -813, -24, 849, -1227, 961, -190, -681, 1194, -1081, 399, 492, -1125, 1167, -596,
      -288, 1021, -1218, 775, 75, -885, 1231, -930, 141, 723, -1207, 1057, -352, -538, 1146, -1152,
      553, 337, -1049, 1211, -737, -125, 921, -1233, 898, -91, -764, 1217, -1032, 304, 583, -1165,
      1134, -508, -385, 1076, -1202, 697, 175, -954, 1233, -864, 41, 803, -1226, 1005, -256, -628,
      1182, -1115, 463, 433, -1101, 1191, -655, -225, 987, -1231, 828, 9, -842, 1233, -976, 207,
      671, -1197, 1094, -416, -480, 1124, -1178, 613, 274, -1017, 1226, -791, -60, 879, -1237, 945,
      -157, -714, 1210, -1071, 369, 527, -1146, 1163, -569, -323, 1047, -1220, 753, 110, -915, 1240,
      -913, 107, 756, -1221, 1046, -321, -573, 1166, -1146, 525, 372, -1074, 1212, -713, -160, 950,
      -1240, 879, -57, -796, 1231, -1019, 272, 618, -1183, 1127, -479, -421, 1100, -1201, 672, 211,
      -983, 1239, -844, 6, 835, -1238, 990, -223, -662, 1199, -1107, 433, 469, -1124, 1189, -630,
      -261, 1014, -1235, 807, 45, -873, 1243, -960, 173, 705, -1213, 1084, -385, -516, 1146, -1175,
      586, 310, -1044, 1229, -769, -95, 909, -1246, 928, -123, -747, 1225, -1059, 337, 562, -1166,
      1158, -542, -360, 1072, -1221, 729, 146, -945, 1247, -895, 72, 788, -1235, 1033, -289, -608,
      1185, -1140, 496, 408, -1098, 1212, -688, -196, 978, -1246, 860, -22, -828, 1243, -1005, 239,
      652, -1201, 1119, -450, -457, 1123, -1200, 646, 247, -1010, 1243, -823, -29, 866, -1249, 975,
      -189, -696, 1216, -1097, 402, 504, -1146, 1186, -603, -297, 1041, -1238, 785, 80, -904, 1252,
      -944, 139, 739, -1228, 1073, -354, -551, 1167, -1170, 558, 346, -1069, 1231, -746, -131, 939,
      -1254, 910, -88, -780, 1239, -1047, 305, 597, -1186, 1152, -513, -396, 1097, -1221, 705, 182,
      -973, 1254, -875, 37, 821, -1248, 1019, -256, -642, 1203, -1132, 466, 444, -1122, 1210, -663,
      -233, 1006, -1251, 839, 14, -860, 1254, -990, 206, 687, -1218, 1110, -419, -492, 1145, -1197,
      620, 283, -1037, 1247, -801, -65, 897, -1258, 959, -155, -730, 1232, -1087, 371, 540, -1167,
      1181, -575, -333, 1067, -1240, 762, 116, -934, 1261, -926, 104, 772, -1243, 1061, -322, -586,
      1187, -1164, 530, 383, -1094, 1231, -721, -167, 968, -1261, 891, -53, -813, 1252, -1034, 272,
      632, -1205, 1145, -483, -432, 1120, -1220, 679, 218, -1002, 1259, -855, 2, 852, -1259, 1004,
      -222, -677, 1221, -1123, 436, 480, -1145, 1208, -636, -269, 1034, -1255, 817, 50, -891, 1264,
      -974, 172, 721, -1234, 1100, -388, -528, 1167, -1193, 592, 320, -1064, 1249, -778, -101, 928,
      -1267, 941, -121, -763, 1246, -1075, 339, 575, -1187, 1176, -547, -370, 1092, -1241, 738, 153,
      -963, 1268, -907, 69, 805, -1256, 1048, -289, -622, 1206, -1157, 500, 419, -1119, 1231, -696,
      -204, 997, -1267, 871, -18, -845, 1264, -1019, 239, 667, -1223, 1136, -453, -468, 1144, -1218,
      653, 255, -1030, 1263, -834, -34, 884, -1270, 988, -188, -711, 1237, -1113, 405, 517, -1167,
      1204, -609, -306, 1060, -1258, 795, 86, -922, 1273, -956, 137, 754, -1250, 1089, -356, -564,
      1188, -1188, 564, 356, -1089, 1250, -754, -138, 958, -1275, 922, -85, -797, 1260, -1062, 306,
      611, -1207, 1169, -517, -406, 1117, -1241, 713, 189, -992, 1274, -887, 34, 837, -1269, 1034,
      -256, -657, 1224, -1149, 470, 456, -1142, 1229, -670, -241, 1025, -1271, 850, 18, -877, 1275,
      -1003, 205, 702, -1239, 1126, -422, -505, 1166, -1215, 626, 292, -1057, 1266, -811, -71, 915,
      -1279, 971, -153, -745, 1253, -1102, 373, 553, -1188, 1199, -581, -343, 1087, -1259, 771, 123,
      -952, 1281, -938, 102, 788, -1264, 1076, -323, -600, 1208, -1181, 534, 393, -1115, 1250, -730,
      -175, 987, -1281, 902, -50, -829, 1273, -1048, 272, 646, -1226, 1161, -487, -443, 1141, -1239,
      687, 226, -1021, 1279, -866, -3, 870, -1280, 1018, -221, -692, 1242, -1139, 439, 492, -1165,
      1226, -643, -278, 1053, -1275, 827, 55, -908, 1285, -986, 170, 736, -1255, 1116, -390, -541,
      1188, -1211, 598, 329, -1083, 1269, -787, -107, 946, -1288, 953, -118, -779, 1267, -1090, 340,
      589, -1208, 1193, -551, -380, 1112, -1260, 746, 160, -982, 1288, -918, 66, 821, -1277, 1062,
      -289, -636, 1227, -1174, 504, 430, -1139, 1249, -704, -212, 1016, -1287, 882, -13, -862, 1285,
      -1033, 238, 682, -1243, 1152, -456, -480, 1164, -1237, 660, 264, -1049, 1283, -844, -39, 901,
      -1290, 1002, -187, -726, 1258, -1129, 407, 529, -1187, 1222, -615, -315, 1080, -1277, 804, 92,
      -939, 1294, -969, 135, 770, -1271, 1104, -357, -577, 1208, -1205, 569, 367, -1109, 1269, -763,
      -144, 976, -1295, 934, -82, -813, 1281, -1076, 306, 625, -1228, 1186, -521, -417, 1137, -1259,
      720, 197, -1011, 1294, -898, 30, 854, -1289, 1047, -255, -671, 1245, -1165, 473, 467, -1163,
      1247, -677, -249, 1044, -1291, 860, 23, -894, 1296, -1016, 203, 717, -1260, 1142, -424, -517,
      1186, -1233, 632, 301, -1076, 1286, -820, -76, 933, -1300, 984, -151, -761, 1273, -1117, 374,
      566, -1208, 1217, -586, -353, 1106, -1279, 780, 129, -970, 1302, -949, 99, 804, -1285, 1090,
      -324, -613, 1228, -1198, 539, 404, -1134, 1269, -737, -182, 1006, -1301, 913, -46, -846, 1294,
      -1062, 272, 660, -1246, 1178, -490, -454, 1161, -1258, 694, 235, -1040, 1299, -876, -7, 887,
      -1301, 1031, -220, -706, 1262, -1155, 441, 504, -1185, 1244, -649, -287, 1072, -1294, 837, 60,
      -926, 1305, -999, 168, 751, -1276, 1131, -391, -554, 1208, -1228, 603, 339, -1103, 1288, -796,
      -114, 964, -1308, 965, -115, -795, 1288, -1104, 341, 602, -1229, 1210, -556, -390, 1132, -1279,
      754, 167, -1000, 1308, -929, 62, 838, -1298, 1076, -289, -650, 1247, -1190, 508, 441, -1159,
      1268, -711, -220, 1035, -1306, 892, -9, -879, 1305, -1046, 237, 696, -1264, 1168, -459, -492,
      1184, -1255, 666, 272, -1068, 1303, -853, -44, 919, -1311, 1014, -185, -742, 1279, -1144, 409,
      541, -1207, 1239, -620, -325, 1099, -1296, 813, 98, -957, 1314, -981, 132, 786, -1291, 1118,
      -358, -590, 1229, -1222, 573, 377, -1129, 1288, -771, -151, 994, -1315, 945, -79, -829, 1302,
      -1090, 307, 638, -1248, 1202, -525, -428, 1157, -1278, 728, 205, -1030, 1314, -908, 25, 871,
      -1310, 1061, -255, -685, 1266, -1181, 476, 479, -1183, 1265, -683, -258, 1063, -1311, 870, 28,
      -911, 1316, -1029, 202, 731, -1281, 1158, -426, -529, 1207, -1250, 638, 310, -1095, 1305, -829,
      -82, 950, -1320, 996, -149, -776, 1294, -1132, 376, 578, -1229, 1234, -591, -363, 1126, -1297,
      788, 136, -988, 1321, -961, 96, 820, -1305, 1105, -324, -627, 1249, -1215, 543, 414, -1154,
      1288, -745, -189, 1024, -1321, 924, -42, -863, 1314, -1075, 272, 675, -1267, 1194, -494, -466,
      1181, -1276, 700, 243, -1058, 1318, -886, -12, 904, -1321, 1044, -219, -721, 1283, -1171, 444,
      516, -1205, 1261, -655, -296, 1091, -1313, 846, 66, -943, 1325, -1011, 166, 767, -1297, 1146,
      -393, -566, 1228, -1245, 608, 348, -1122, 1306, -805, -120, 982, -1328, 977, -112, -811, 1308,
      -1119, 341, 615, -1249, 1227, -560, -401, 1151, -1297, 762, 174, -1018, 1328, -940, 59, 854,
      -1318, 1090, -289, -663, 1268, -1206, 511, 452, -1179, 1286, -718, -228, 1053, -1326, 902, -4,
      -896, 1325, -1059, 236, 710, -1284, 1184, -461, -503, 1204, -1272, 672, 281, -1087, 1322, -863,
      -50, 936, -1331, 1027, -183, -757, 1299, -1159, 411, 554, -1227, 1256, -625, -334, 1118, -1315,
      821, 104, -975, 1334, -992, 129, 801, -1311, 1133, -359, -603, 1249, -1239, 578, 387, -1148,
      1307, -779, -158, 1012, -1335, 956, -75, -845, 1322, -1104, 307, 652, -1268, 1219, -529, -439,
      1176, -1296, 735, 212, -1048, 1333, -918, 21, 887, -1330, 1074, -254, -700, 1286, -1197, 479,
      490, -1202, 1283, -689, -266, 1082, -1330, 879, 33, -928, 1336, -1042, 200, 746, -1301, 1173,
      -428, -541, 1226, -1268, 643, 319, -1114, 1324, -838, -88, 968, -1340, 1008, -147, -792, 1314,
      -1147, 377, 591, -1249, 1250, -595, -373, 1145, -1316, 796, 142, -1006, 1341, -972, 92, 836,
      -1325, 1119, -324, -640, 1269, -1231, 546, 425, -1173, 1306, -752, -197, 1042, -1340, 935, -38,
      -879, 1334, -1089, 271, 689, -1287, 1209, -497, -477, 1200, -1293, 707, 251, -1077, 1337, -895,
      -17, 920, -1341, 1057, -218, -736, 1303, -1186, 446, 528, -1225, 1279, -660, -305, 1110, -1332,
      855, 72, -961, 1345, -1023, 164, 782, -1317, 1160, -394, -579, 1248, -1262, 613, 358, -1141,
      1325, -813, -126, 999, -1347, 988, -109, -827, 1328, -1133, 342, 629, -1269, 1243, -564, -411,
      1171, -1315, 769, 181, -1036, 1347, -951, 55, 870, -1338, 1103, -289, -677, 1288, -1222, 514,
      464, -1198, 1303, -724, -235, 1072, -1345, 912, 0, -912, 1345, -1072, 235, 725, -1304, 1199,
      -464, -515, 1224, -1289, 678, 290, -1105, 1340, -872, -55, 953, -1350, 1039, -181, -771, 1319,
      -1174, 412, 566, -1247, 1273, -630, -344, 1137, -1334, 830, 110, -992, 1353, -1004, 127, 817,
      -1331, 1147, -360, -616, 1269, -1255, 582, 397, -1167, 1325, -786, -165, 1030, -1354, 967, -72,
      -861, 1342, -1118, 307, 666, -1288, 1234, -532, -450, 1196, -1313, 742, 220, -1066, 1352, -928,
      17, 904, -1350, 1087, -253, -714, 1306, -1212, 481, 502, -1222, 1300, -695, -275, 1100, -1348,
      888, 39, -945, 1356, -1054, 199, 761, -1321, 1187, -430, -553, 1246, -1284, 648, 329, -1133,
      1342, -847, -94, 985, -1359, 1019, -144, -807, 1334, -1161, 378, 604, -1268, 1267, -600, -382,
      1164, -1334, 803, 149, -1023, 1360, -983, 89, 852, -1345, 1132, -324, -654, 1289, -1247, 550,
      436, -1193, 1323, -759, -204, 1060, -1359, 945, -34, -895, 1354, -1102, 271, 703, -1307, 1225,
      -499, -488, 1220, -1311, 713, 259, -1095, 1356, -905, -22, 937, -1360, 1069, -216, -750, 1323,
      -1201, 448, 540, -1245, 1296, -666, -314, 1129, -1351, 863, 77, -978, 1365, -1035, 161, 797,
      -1337, 1175, -395, -591, 1268, -1278, 617, 368, -1160, 1343, -821, -133, 1017, -1367, 999, -106,
      -842, 1348, -1146, 342, 642, -1289, 1259, -568, -422, 1190, -1333, 776, 188, -1054, 1366, -961,
      51, 886, -1358, 1116, -288, -691, 1308, -1237, 517, 475, -1217, 1321, -730, -244, 1090, -1364,
      921, 5, -929, 1365, -1084, 234, 739, -1324, 1214, -466, -527, 1243, -1306, 683, 299, -1124,
      1359, -880, -61, 970, -1370, 1050, -179, -786, 1339, -1188, 413, 579, -1267, 1290, -635, -353,
      1156, -1352, 838, 117, -1010, 1373, -1015, 124, 832, -1351, 1160, -360, -629, 1289, -1271, 586,
      407, -1186, 1342, -794, -172, 1048, -1373, 977, -68, -877, 1361, -1131, 306, 679, -1308, 1250,
      -535, -461, 1215, -1331, 748, 228, -1084, 1371, -938, 12, 920, -1369, 1099, -252, -728, 1326,
      -1227, 484, 513, -1241, 1317, -701, -283, 1119, -1367, 897, 44, -962, 1375, -1066, 197, 776,
      -1341, 1202, -431, -566, 1266, -1301, 653, 338, -1152, 1360, -855, -100, 1002, -1378, 1030, -141,
      -822, 1354, -1175, 378, 617, -1288, 1283, -604, -393, 1183, -1352, 811, 156, -1041, 1379, -993,
      85, 867, -1365, 1145, -324, -667, 1308, -1262, 553, 446, -1212, 1341, -766, -212, 1078, -1378,
      954, -29, -911, 1373, -1114, 270, 717, -1327, 1240, -502, -500, 1239, -1328, 719, 268, -1113,
      1375, -914, -27, 954, -1380, 1081, -214, -765, 1343, -1215, 450, 552, -1264, 1312, -671, -323,
      1147, -1369, 872, 83, -995, 1384, -1046, 159, 812, -1356, 1188, -396, -604, 1287, -1294, 622,
      378, -1179, 1361, -828, -140, 1034, -1386, 1009, -103, -858, 1368, -1160, 342, 655, -1308, 1275,
      -571, -432, 1209, -1350, 783, 196, -1072, 1385, -971, 47, 902, -1377, 1129, -288, -705, 1327,
      -1253, 520, 486, -1236, 1338, -737, -252, 1108, -1382, 931, 10, -945, 1384, -1096, 232, 754,
      -1344, 1228, -468, -539, 1262, -1323, 689, 307, -1142, 1377, -889, -66, 987, -1389, 1062, -177,
      -801, 1358, -1202, 414, 591, -1286, 1306, -640, -363, 1175, -1370, 845, 123, -1027, 1392, -1025,
      121, 848, -1371, 1174, -360, -642, 1308, -1287, 589, 417, -1205, 1360, -801, -179, 1065, -1392,
      987, -64, -893, 1381, -1144, 306, 693, -1328, 1265, -538, -472, 1234, -1348, 754, 236, -1102,
      1390, -947, 7, 936, -1389, 1111, -250, -742, 1345, -1242, 486, 525, -1260, 1334, -707, -292,
      1137, -1385, 906, 49, -979, 1394, -1077, 195, 790, -1360, 1216, -433, -578, 1285, -1317, 658,
      347, -1170, 1378, -863, -106, 1019, -1397, 1041, -138, -837, 1373, -1188, 379, 630, -1307, 1299,
      -608, -403, 1201, -1369, 818, 163, -1058, 1398, -1003, 82, 883, -1384, 1158, -324, -681, 1328,
      -1278, 556, 457, -1231, 1358, -772, -220, 1096, -1397, 964, -25, -927, 1393, -1126, 269, 730,
      -1346, 1255, -504, -511, 1258, -1344, 724, 276, -1132, 1393, -923, -32, 970, -1399, 1093, -213,
      -779, 1362, -1229, 451, 564, -1283, 1328, -676, -332, 1165, -1387, 880, 89, -1012, 1403, -1057,
      156, 827, -1376, 1202, -397, -617, 1307, -1310, 626, 388, -1197, 1378, -835, -146, 1051, -1404,
      1020, -99, -873, 1387, -1173, 342, 668, -1328, 1290, -575, -443, 1227, -1368, 790, 203, -1089,
      1404, -980, 42, 918, -1396, 1141, -287, -719, 1347, -1267, 522, 497, -1255, 1355, -742, -260,
      1126, -1400, 940, 15, -962, 1403, -1108, 231, 768, -1363, 1243, -469, -551, 1281, -1339, 694,
      316, -1160, 1395, -897, -72, 1004, -1408, 1073, -174, -816, 1378, -1216, 415, 603, -1305, 1322,
      -644, -372, 1193, -1387, 853, 130, -1044, 1410, -1036, 117, 863, -1390, 1187, -361, -655, 1327,
      -1302, 593, 428, -1224, 1377, -807, -187, 1083, -1410, 997, -60, -909, 1400, -1156, 305, 706,
      -1347, 1280, -541, -483, 1253, -1365, 760, 244, -1120, 1408, -956, 3, 953, -1408, 1123, -249,
      -756, 1364, -1256, 488, 537, -1279, 1350, -712, -300, 1155, -1403, 914, 55, -995, 1413, -1088,
      192, 805, -1380, 1230, -434, -590, 1304, -1333, 662, 357, -1188, 1396, -870, -113, 1036, -1416,
      1052, -135, -853, 1393, -1201, 379, 642, -1327, 1314, -611, -413, 1220, -1386, 825, 170, -1076,
      1417, -1013, 78, 899, -1403, 1171, -323, -694, 1347, -1293, 559, 468, -1249, 1375, -778, -227,
      1114, -1415, 973, -20, -943, 1412, -1138, 267, 744, -1365, 1269, -506, -522, 1277, -1361, 730,
      284, -1149, 1411, -931, -38, 987, -1418, 1104, -210, -794, 1381, -1243, 452, 576, -1302, 1344,
      -680, -341, 1184, -1404, 888, 95, -1028, 1421, -1068, 153, 842, -1395, 1215, -397, -629, 1326,
      -1326, 630, 397, -1216, 1396, -842, -153, 1069, -1423, 1030, -96, -889, 1406, -1185, 342, 681,
      -1347, 1305, -578, -453, 1246, -1385, 796, 211, -1107, 1422, -990, 38, 934, -1415, 1153, -286,
      -732, 1366, -1282, 525, 508, -1274, 1371, -748, -268, 1144, -1418, 948, 20, -978, 1422, -1120,
      229, 782, -1382, 1257, -471, -562, 1300, -1355, 699, 325, -1178, 1413, -905, -78, 1020, -1427,
      1084, -172, -831, 1397, -1229, 416, 616, -1324, 1337, -648, -382, 1211, -1405, 860, 136, -1061,
      1429, -1046, 114, 878, -1409, 1200, -360, -668, 1346, -1317, 596, 438, -1242, 1394, -814, -194,
      1100, -1428, 1006, -56, -924, 1419, -1168, 304, 720, -1366, 1295, -543, -494, 1271, -1381, 766,
      252, -1137, 1426, -965, -2, 969, -1426, 1135, -247, -770, 1383, -1270, 489, 548, -1298, 1366,
      -717, -309, 1173, -1421, 922, 61, -1012, 1432, -1099, 190, 820, -1399, 1243, -435, -602, 1323,
      -1349, 666, 366, -1207, 1413, -878, -119, 1053, -1434, 1062, -132, -868, 1412, -1214, 379, 655,
      -1346, 1329, -615, -423, 1238, -1403, 831, 177, -1093, 1435, -1023, 74, 914, -1422, 1183, -323,
      -707, 1366, -1307, 562, 479, -1268, 1391, -784, -235, 1131, -1433, 982, -15, -959, 1430, -1150,
      266, 758, -1384, 1283, -508, -534, 1296, -1377, 735, 293, -1167, 1428, -939, -43, 1003, -1436,
      1115, -208, -808, 1400, -1257, 453, 588, -1321, 1360, -685, -350, 1202, -1422, 895, 102, -1045,
      1440, -1078, 150, 857, -1414, 1228, -398, -642, 1345, -1341, 633, 407, -1234, 1413, -849, -160,
      1086, -1441, 1039, -92, -904, 1425, -1198, 341, 694, -1366, 1320, -580, -464, 1264, -1401, 802,
      219, -1124, 1440, -999, 33, 950, -1434, 1165, -284, -746, 1385, -1296, 527, 519, -1293, 1387,
      -753, -277, 1161, -1436, 957, 25, -994, 1441, -1131, 227, 796, -1401, 1270, -472, -574, 1319,
      -1371, 703, 334, -1196, 1430, -913, -84, 1037, -1445, 1094, -169, -846, 1416, -1242, 417, 628,
      -1343, 1353, -652, -392, 1229, -1422, 867, 143, -1078, 1447, -1056, 110, 893, -1428, 1212, -360,
      -681, 1365, -1332, 599, 448, -1261, 1411, -820, -202, 1117, -1446, 1016, -51, -940, 1438, -1180,
      303, 733, -1385, 1309, -546, -505, 1290, -1398, 771, 260, -1155, 1443, -974, -8, 985, -1445,
      1146, -245, -784, 1402, -1284, 491, 560, -1317, 1382, -721, -318, 1191, -1438, 930, 67, -1028,
      1450, -1110, 187, 834, -1417, 1256, -435, -614, 1342, -1364, 670, 376, -1225, 1430, -885, -126,
      1070, -1453, 1072, -129, -883, 1430, -1227, 379, 668, -1364, 1344, -618, -433, 1256, -1420, 838,
      185, -1110, 1453, -1032, 70, 930, -1441, 1195, -322, -721, 1385, -1322, 564, 490, -1286, 1408,
      -790, -243, 1148, -1450, 991, -11, -975, 1449, -1162, 264, 772, -1403, 1297, -510, -545, 1314,
      -1393, 740, 302, -1185, 1446, -947, -49, 1019, -1455, 1126, -206, -823, 1419, -1270, 454, 600,
      -1340, 1375, -689, -360, 1219, -1439, 902, 108, -1062, 1458, -1088, 147, 872, -1433, 1241, -398,
      -655, 1363, -1356, 637, 417, -1252, 1429, -856, -167, 1103, -1459, 1049, -88, -919, 1444, -1210,
      341, 708, -1384, 1334, -583, -474, 1283, -1417, 808, 226, -1142, 1457, -1008, 29, 965, -1453,
      1177, -283, -760, 1403, -1310, 529, 531, -1311, 1403, -758, -285, 1179, -1453, 965, 31, -1010,
      1459, -1142, 225, 811, -1420, 1284, -473, -586, 1338, -1387, 707, 344, -1214, 1447, -920, -90,
      1053, -1463, 1105, -166, -860, 1434, -1255, 417, 641, -1362, 1368, -655, -401, 1247, -1438, 874,
      150, -1095, 1465, -1065, 106, 909, -1446, 1225, -360, -694, 1384, -1346, 602, 459, -1279, 1427,
      -826, -209, 1134, -1464, 1025, -47, -955, 1456, -1192, 302, 747, -1404, 1323, -548, -516, 1308,
      -1413, 777, 268, -1172, 1461, -982, -13, 1001, -1463, 1157, -243, -798, 1421, -1297, 492, 572,
      -1335, 1398, -726, -327, 1208, -1455, 938, 72, -1045, 1468, -1121, 184, 849, -1436, 1269, -436,
      -627, 1360, -1379, 674, 385, -1242, 1447, -892, -132, 1087, -1470, 1082, -125, -898, 1449, -1239,
      379, 681, -1383, 1359, -621, -443, 1275, -1437, 844, 192, -1127, 1470, -1041, 65, 945, -1459,
      1207, -321, -734, 1403, -1336, 566, 500, -1305, 1424, -795, -251, 1166, -1468, 999, -6, -991,
      1467, -1173, 262, 786, -1422, 1311, -511, -557, 1332, -1408, 744, 310, -1202, 1463, -955, -54,
      1036, -1473, 1136, -203, -837, 1438, -1283, 455, 612, -1358, 1391, -693, -369, 1237, -1456, 909,
      115, -1078, 1476, -1098, 144, 886, -1451, 1254, -398, -667, 1382, -1371, 640, 427, -1270, 1446,
      -862, -174, 1119, -1477, 1058, -84, -934, 1462, -1222, 340, 721, -1403, 1348, -585, -485, 1301,
      -1433, 813, 234, -1159, 1475, -1016, 24, 981, -1471, 1188, -281, -773, 1422, -1324, 530, 542,
      -1329, 1419, -763, -294, 1196, -1471, 973, 36, -1026, 1477, -1152, 222, 825, -1439, 1297, -474,
      -598, 1356, -1402, 711, 353, -1232, 1464, -927, -97, 1070, -1481, 1115, -163, -875, 1453, -1268,
      417, 653, -1380, 1382, -659, -411, 1265, -1455, 880, 157, -1112, 1482, -1075, 103, 924, -1465,
      1237, -359, -707, 1402, -1361, 604, 469, -1297, 1443, -832, -217, 1152, -1481, 1033, -42, -971,
      1474, -1203, 300, 760, -1422, 1337, -549, -527, 1326, -1429, 782, 277, -1190, 1478, -990, -18,
      1017, -1481, 1168, -241, -812, 1439, -1310, 493, 583, -1353, 1413, -730, -336, 1226, -1472, 945,
      79, -1061, 1486, -1131, 181, 863, -1455, 1282, -436, -639, 1379, -1394, 677, 395, -1260, 1464,
      -898, -139, 1103, -1488, 1091, -121, -912, 1467, -1251, 378, 694, -1401, 1373, -624, -454, 1292,
      -1453, 850, 199, -1144, 1488, -1050, 61, 960, -1477, 1219, -320, -747, 1422, -1350, 568, 511,
      -1323, 1439, -800, -259, 1183, -1485, 1007, 0, -1007, 1485, -1184, 260, 800, -1440, 1324, -512,
      -568, 1351, -1424, 749, 319, -1220, 1480, -963, -60, 1052, -1491, 1147, -201, -851, 1456, -1296,
      455, 625, -1376, 1406, -696, -379, 1255, -1472, 916, 121, -1095, 1494, -1108, 140, 901, -1469,
      1266, -397, -680, 1400, -1385, 643, 437, -1288, 1462, -868, -182, 1136, -1494, 1067, -80, -950,
      1480, -1234, 339, 734, -1421, 1362, -588, -496, 1319, -1449, 819, 242, -1176, 1492, -1025, 19,
      997, -1489, 1199, -280, -787, 1440, -1337, 532, 553, -1348, 1434, -768, -302, 1214, -1487, 980,
      42, -1042, 1495, -1163, 220, 839, -1457, 1310, -475, -610, 1374, -1417, 715, 362, -1249, 1480,
      -934, -103, 1086, -1499, 1124, -159, -889, 1471, -1280, 417, 666, -1399, 1397, -662, -421, 1283,
      -1471, 886, 164, -1128, 1500, -1084, 99, 939, -1483, 1248>>

\* (islandX, islandZ) of a file
IslandOffsetScaledDown(fileGlobalIndex) ==
    [x |-> IslandX[fileGlobalIndex + 1] \div 30,
     z |-> IslandZ[fileGlobalIndex + 1] \div 30]
IslandOffset(fileGlobalIndex) ==
    [x |-> IslandX[fileGlobalIndex + 1], z |-> IslandZ[fileGlobalIndex + 1]]

----------------------------------------------------------------------------
(* The workspace: the files on disk *)

\* file k: its path, whether openTextDocument succeeds, whether it has more
\* than 200 lines (the parser then yields once), and its declarations: the
\* first a class, the others functions
WorkspaceFile(k, opens) ==
    [fsPath |-> "/ws/f" \o ToString(k) \o ".ts",
     opens |-> opens,
     big |-> (k % 5 = 3),
     decls |-> (k + 1) % 3]

\* n files of which file `bad` cannot be opened (bad = n: every file opens)
Workspace(n, bad) == [j \in 1..n |-> WorkspaceFile(j - 1, j - 1 # bad)]

File(k) == files[k + 1]

----------------------------------------------------------------------------
(* FileParser *)

\* const id = `block_${fileHash}_${blockIndex}`
BlockId(fileHash, blockIndex) ==
    "block_" \o fileHash \o "_" \o ToString(blockIndex)

\* createObject(name, type, blockIndex, fileName)
createObject(name, type, blockIndex, fileName) ==
    [id |-> BlockId(FileHash(fileName), blockIndex),
     type |-> IF type = "class" THEN "class_block" ELSE "function_block",
     position |-> [x |-> BlockSpiral(blockIndex).x, y |-> 0,
                   z |-> BlockSpiral(blockIndex).z],
     metadata |-> [name |-> name, originalType |-> type],
     color |-> IF type = "class" THEN 13938487 ELSE 52945]

\* the objects parse returns when it runs to the last line
ParseFile(file) ==
    [b \in 1..file.decls |->
        createObject("d" \o ToString(b - 1),
                     IF b = 1 THEN "class" ELSE "function",
                     b - 1, file.fsPath)]

\* if (token.isCancellationRequested) throw new VisualizerError(...), made at
\* every line, so at the entry of parse and again after a yield
ParseIgnoresToken(isCancellationRequested) == FALSE
ParseChecksToken(isCancellationRequested) == isCancellationRequested

----------------------------------------------------------------------------
(* scanWorkspace: the parts of the loop body *)

\* files.slice(i, i + batchSize), as global indices
BatchIndices(i0, n) == i0 .. (Min(i0 + batchSize, n) - 1)

\* const fileGlobalIndex = i + batchIndex
FileGlobalIndexInBatch(i0, batchIndex) == batchIndex
FileGlobalIndexByCompletion(i0, batchIndex) ==
    i0 + Cardinality({k \in DOMAIN items : k >= i0 /\ items[k].state = "done"})
FileGlobalIndex(i0, batchIndex) == i0 + batchIndex

\* objects.map(obj => ({...obj, position: {x + islandX, y, z + islandZ}}))
TranslateEveryAxis(objects, fileGlobalIndex) ==
    LET off == IslandOffset(fileGlobalIndex) IN
    [b \in DOMAIN objects |->
        [id |-> objects[b].id,
         type |-> objects[b].type,
         position |-> [x |-> objects[b].position.x + off.x,
                       y |-> objects[b].position.y + fileGlobalIndex,
                       z |-> objects[b].position.z + off.z],
         metadata |-> objects[b].metadata,
         color |-> objects[b].color]]
Translate(objects, fileGlobalIndex) ==
    LET off == IslandOffset(fileGlobalIndex) IN
    [b \in DOMAIN objects |->
        [id |-> objects[b].id,
         type |-> objects[b].type,
         position |-> [x |-> objects[b].position.x + off.x,
                       y |-> objects[b].position.y,
                       z |-> objects[b].position.z + off.z],
         metadata |-> objects[b].metadata,
         color |-> objects[b].color]]

\* the states of one callback of batch.map
Waiting == [state |-> "waiting", outcome |-> "none", blocks |-> <<>>,
            tokenAtParse |-> FALSE]
Opening == [state |-> "opening", outcome |-> "none", blocks |-> <<>>,
            tokenAtParse |-> FALSE]

\* history: the callback of item k returns while a callback of lower index
\* of the same batch has not
Overtakes(was, its, k, i0) ==
    was \/ \E j \in i0..(k - 1) : its[j].state \in {"opening", "parsing"}

\* the try block ran to its return
ItemParsed(k, i0, tok) ==
    [state |-> "done", outcome |-> "ok",
     blocks |-> Translate(ParseFile(File(k)), FileGlobalIndex(i0, k - i0)),
     tokenAtParse |-> tok]

\* catch (error) { logger.error(...); return [] }
ItemCatchRethrows(reason, tok) ==
    [state |-> "rejected", outcome |-> reason, blocks |-> <<>>, tokenAtParse |-> tok]
ItemCatch(reason, tok) ==
    [state |-> "done", outcome |-> reason, blocks |-> <<>>, tokenAtParse |-> tok]

\* await Promise.all(batchPromises) resumes when every callback has
\* returned, or as soon as one has thrown
BatchSettledUnlessCaught(its, i0, n) ==
    \A k \in BatchIndices(i0, n) : its[k].state = "done" /\ its[k].outcome = "ok"
BatchSettledAny(its, i0, n) ==
    \E k \in BatchIndices(i0, n) : its[k].state \in {"done", "rejected"}
BatchSettled(its, i0, n) ==
    \/ \A k \in BatchIndices(i0, n) : its[k].state = "done"
    \/ \E k \in BatchIndices(i0, n) : its[k].state = "rejected"

\* batchResults.forEach(results => allObjects.push(...results))
RECURSIVE MergeBatchLastFirst(_, _, _, _)
MergeBatchLastFirst(objs, its, k, last) ==
    IF k > last THEN objs
    ELSE MergeBatchLastFirst(objs \o its[last].blocks, its, k, last - 1)
RECURSIVE MergeBatch(_, _, _, _)
MergeBatch(objs, its, k, last) ==
    IF k > last THEN objs
    ELSE MergeBatch(objs \o its[k].blocks, its, k + 1, last)

\* const current = Math.min(i + batchSize, total)
CurrentNoMin(i0, n) == i0 + batchSize
CurrentOf(i0, n) == Min(i0 + batchSize, n)

\* const increment = (batch.length / total) * 100, kept as a fraction
IncrementOfBatchSize(batchLength, n) == [num |-> batchSize * 100, den |-> n]
IncrementOf(batchLength, n) == [num |-> batchLength * 100, den |-> n]

\* onProgressMessage(`Found ${total} files.`, 0, 0, total)
ProgressFound(n) ==
    [message |-> "Found " \o ToString(n) \o " files.",
     increment |-> [num |-> 0, den |-> 1], current |-> 0, total |-> n]

\* onProgressMessage(`Parsing ${current}/${total} files...`, increment, current, total)
ProgressParsing(i0, batchLength, n) ==
    [message |-> "Parsing " \o ToString(CurrentOf(i0, n)) \o "/"
                    \o ToString(n) \o " files...",
     increment |-> IncrementOf(batchLength, n),
     current |-> CurrentOf(i0, n), total |-> n]

\* the progress report made after a batch, once per batch
ProgressPerItem(reports, i0, batchLength, n) ==
    reports \o [j \in 1..batchLength |-> ProgressParsing(i0, batchLength, n)]
ProgressAfterBatch(reports, i0, batchLength, n) ==
    Append(reports, ProgressParsing(i0, batchLength, n))

\* if (token.isCancellationRequested) { logger.warn(...); break; }
ShouldBreakNever(isCancellationRequested, i0) == FALSE
ShouldBreakFirstOnly(isCancellationRequested, i0) == isCancellationRequested /\ i0 = 0
ShouldBreak(isCancellationRequested, i0) == isCancellationRequested

\* the head of the for loop at i = i0, with the objects merged so far: leave
\* the loop and return allObjects, or dispatch the batch that starts at i0
\* (batch.map runs every callback up to its await of openTextDocument)
LoopHead(i0, n, objs, its) ==
    /\ loopI' = i0
    /\ allObjects' = objs
    /\ IF i0 < n /\ ~ShouldBreak(cancelled, i0)
       THEN /\ items' = [k \in DOMAIN its |->
                            IF k \in BatchIndices(i0, n) THEN Opening ELSE its[k]]
            /\ dispatched' = Append(dispatched, i0)
            /\ scanPc' = "awaiting"
            /\ promises' = promises
            /\ stoppedEarly' = stoppedEarly
       ELSE /\ items' = its
            /\ dispatched' = dispatched
            /\ scanPc' = "returned"
            /\ promises' = [promises EXCEPT ![scanRef.promise] = Resolved(objs)]
            /\ stoppedEarly' = (i0 < n)

----------------------------------------------------------------------------
(* scanWorkspace: the steps *)

ScanInit ==
    /\ TrackerInit
    /\ \E n \in 0..MaxFiles : \E bad \in 0..n :
          workspace = Workspace(n, bad)
    /\ ScanIdle
    /\ DelayIdle
    /\ PureIdle

\* scanWorkspace(token, progress, onProgressMessage): the async function
\* starts and runs to `await findFiles`; its promise is handed to
\* taskTracker.track, which registers it (PerformanceMetrics.measure only
\* times the whole and passes the outcome through)
ScanCall ==
    LET id == TaskId(nextId) IN
    /\ scanPc = "idle"
    /\ scanPc' = "finding"
    /\ cancelledAtCall' = cancelled
    /\ promises' = Append(promises, Pending)
    /\ scanRef' = [promise |-> Len(promises) + 1, call |-> Len(calls) + 1]
    /\ nextId' = NextIdAfter(nextId)
    /\ activeTasks' = MapSet(activeTasks, id,
            [id |-> id, description |-> "Workspace Scan", startTime |-> now])
    /\ events' = Log(events, id, "Task started")
    /\ calls' = Append(calls,
            [id |-> id, task |-> Len(promises) + 1, pc |-> "awaiting",
             returned |-> Pending, callerSaw |-> Pending,
             callerSawEntry |-> FALSE])
    /\ UNCHANGED <<now, timers, workspace, cancelled, files, total, loopI, items,
                   allObjects, progressCalls, dispatched, parserCalls,
                   stoppedEarly, overtaken, scanError>>

\* findFiles resolves: total, the first progress report, then the loop head
FindFilesDone ==
    LET n == Len(workspace) IN
    /\ scanPc = "finding"
    /\ files' = workspace
    /\ total' = n
    /\ progressCalls' = Append(progressCalls, ProgressFound(n))
    /\ LoopHead(0, n, <<>>, [k \in 0..(n - 1) |-> Waiting])
    /\ UNCHANGED <<activeTasks, nextId, now, calls, timers, events, workspace,
                   cancelled, scanRef, parserCalls, cancelledAtCall, overtaken,
                   scanError>>

\* openTextDocument(fileUri) resolves: parser.parse runs from its first line
\* to its first yield (line 200) or to its end
OpenDone(k) ==
    /\ scanPc = "awaiting"
    /\ k \in DOMAIN items
    /\ items[k].state = "opening"
    /\ File(k).opens
    /\ parserCalls' = parserCalls \cup {k}
    /\ items' = [items EXCEPT ![k] =
            IF ParseChecksToken(cancelled)
            THEN ItemCatch("CANCELLATION_REQUESTED", cancelled)
            ELSE IF File(k).big
                 THEN [state |-> "parsing", outcome |-> "none", blocks |-> <<>>,
                       tokenAtParse |-> cancelled]
                 ELSE ItemParsed(k, loopI, cancelled)]
    /\ overtaken' = Overtakes(overtaken, items, k, loopI)
    /\ UNCHANGED <<trackerVars, workspace, cancelled, scanPc, scanRef, files,
                   total, loopI, allObjects, progressCalls, dispatched,
                   cancelledAtCall, stoppedEarly, scanError>>

\* openTextDocument(fileUri) rejects: the callback's catch returns []
OpenFail(k) ==
    /\ scanPc = "awaiting"
    /\ k \in DOMAIN items
    /\ items[k].state = "opening"
    /\ ~File(k).opens
    /\ items' = [items EXCEPT ![k] = ItemCatch("OPEN_FAILED", FALSE)]
    /\ overtaken' = Overtakes(overtaken, items, k, loopI)
    /\ UNCHANGED <<trackerVars, workspace, cancelled, scanPc, scanRef, files,
                   total, loopI, allObjects, progressCalls, dispatched,
                   parserCalls, cancelledAtCall, stoppedEarly, scanError>>

\* the parser resumes after its yield at line 200 and runs to its end
ParseResume(k) ==
    /\ scanPc = "awaiting"
    /\ k \in DOMAIN items
    /\ items[k].state = "parsing"
    /\ items' = [items EXCEPT ![k] =
            IF ParseChecksToken(cancelled)
            THEN ItemCatch("CANCELLATION_REQUESTED", cancelled)
            ELSE ItemParsed(k, loopI, cancelled)]
    /\ overtaken' = Overtakes(overtaken, items, k, loopI)
    /\ UNCHANGED <<trackerVars, workspace, cancelled, scanPc, scanRef, files,
                   total, loopI, allObjects, progressCalls, dispatched,
                   parserCalls, cancelledAtCall, stoppedEarly, scanError>>

\* Promise.all settles: merge, report progress, i += batchSize, loop head;
\* had a callback thrown, the scan's async function would throw with it
BatchDone ==
    LET last == Min(loopI + batchSize, total) - 1
        thrown == {k \in BatchIndices(loopI, total) : items[k].state = "rejected"} IN
    /\ scanPc = "awaiting"
    /\ BatchSettled(items, loopI, total)
    /\ IF thrown # {}
       THEN /\ scanPc' = "failed"
            /\ promises' = [promises EXCEPT ![scanRef.promise] =
                    Rejected(VisualizerError(items[CHOOSE k \in thrown : TRUE].outcome,
                                             "Parsing cancelled"))]
            /\ UNCHANGED <<loopI, items, allObjects, progressCalls, dispatched,
                           stoppedEarly>>
       ELSE /\ progressCalls' = ProgressAfterBatch(progressCalls, loopI,
                                                   last - loopI + 1, total)
            /\ LoopHead(loopI + batchSize, total,
                        MergeBatch(allObjects, items, loopI, last), items)
    /\ UNCHANGED <<activeTasks, nextId, now, calls, timers, events, workspace,
                   cancelled, scanRef, files, total, parserCalls, cancelledAtCall,
                   overtaken, scanError>>

\* cts.cancel(), from outside the scan, at any time
CancelToken ==
    /\ ~cancelled
    /\ cancelled' = TRUE
    /\ UNCHANGED <<trackerVars, workspace, scanPc, scanRef, files, total, loopI,
                   items, allObjects, progressCalls, dispatched, parserCalls,
                   cancelledAtCall, stoppedEarly, overtaken, scanError>>

ScanNext ==
    \/ ScanCall /\ UNCHANGED <<delayVars, pureVars>>
    \/ FindFilesDone /\ UNCHANGED <<delayVars, pureVars>>
    \/ \E k \in DOMAIN items : OpenDone(k) /\ UNCHANGED <<delayVars, pureVars>>
    \/ \E k \in DOMAIN items : OpenFail(k) /\ UNCHANGED <<delayVars, pureVars>>
    \/ \E k \in DOMAIN items : ParseResume(k) /\ UNCHANGED <<delayVars, pureVars>>
    \/ BatchDone /\ UNCHANGED <<delayVars, pureVars>>
    \/ CancelToken /\ UNCHANGED <<delayVars, pureVars>>
    \/ \E c \in DOMAIN calls : TrackResume(c) /\ UNCHANGED <<scanVars, delayVars, pureVars>>
    \/ \E c \in DOMAIN calls : CallerObserve(c) /\ UNCHANGED <<scanVars, delayVars, pureVars>>

ScanSpec == ScanInit /\ [][ScanNext]_vars

\* every promise the scan awaits settles and every continuation queued by a
\* settled promise runs: findFiles, openTextDocument, the parser's yield,
\* Promise.all, and the `await task` of track
ScanProgress ==
    \/ FindFilesDone
    \/ \E k \in DOMAIN items : OpenDone(k)
    \/ \E k \in DOMAIN items : OpenFail(k)
    \/ \E k \in DOMAIN items : ParseResume(k)
    \/ BatchDone
    \/ \E c \in DOMAIN calls : TrackResume(c) /\ UNCHANGED scanVars

ScanLiveSpec ==
    ScanSpec /\ WF_vars(ScanProgress /\ UNCHANGED <<delayVars, pureVars>>)

----------------------------------------------------------------------------
(* scanWorkspace: failures that are not failures of an item *)

\* a throw in the body of the async function, outside the callbacks' try:
\* the function's promise rejects with what was thrown
ScanSwallows(e) == Resolved(<<>>)
ScanThrows(e) == Rejected(e)

\* findFiles rejects with e
FindFilesFail(e) ==
    /\ scanPc = "finding"
    /\ scanPc' = "failed"
    /\ scanError' = e
    /\ promises' = [promises EXCEPT ![scanRef.promise] = ScanThrows(e)]
    /\ UNCHANGED <<activeTasks, nextId, now, calls, timers, events, workspace,
                   cancelled, scanRef, files, total, loopI, items, allObjects,
                   progressCalls, dispatched, parserCalls, cancelledAtCall,
                   stoppedEarly, overtaken>>

\* findFiles resolves and onProgressMessage(`Found ...`) throws e
FoundCallbackThrows(e) ==
    LET n == Len(workspace) IN
    /\ scanPc = "finding"
    /\ files' = workspace
    /\ total' = n
    /\ progressCalls' = Append(progressCalls, ProgressFound(n))
    /\ scanPc' = "failed"
    /\ scanError' = e
    /\ promises' = [promises EXCEPT ![scanRef.promise] = ScanThrows(e)]
    /\ UNCHANGED <<activeTasks, nextId, now, calls, timers, events, workspace,
                   cancelled, scanRef, loopI, items, allObjects, dispatched,
                   parserCalls, cancelledAtCall, stoppedEarly, overtaken>>

\* Promise.all resolves, the batch is merged and
\* onProgressMessage(`Parsing ...`) throws e
ParsingCallbackThrows(e) ==
    LET last == Min(loopI + batchSize, total) - 1 IN
    /\ scanPc = "awaiting"
    /\ \A k \in BatchIndices(loopI, total) : items[k].state = "done"
    /\ allObjects' = MergeBatch(allObjects, items, loopI, last)
    /\ progressCalls' = ProgressAfterBatch(progressCalls, loopI,
                                           last - loopI + 1, total)
    /\ scanPc' = "failed"
    /\ scanError' = e
    /\ promises' = [promises EXCEPT ![scanRef.promise] = ScanThrows(e)]
    /\ UNCHANGED <<activeTasks, nextId, now, calls, timers, events, workspace,
                   cancelled, scanRef, files, total, loopI, items, dispatched,
                   parserCalls, cancelledAtCall, stoppedEarly, overtaken>>

ScanFailNext ==
    \/ ScanNext
    \/ \E e \in Errors : FindFilesFail(e) /\ UNCHANGED <<delayVars, pureVars>>
    \/ \E e \in Errors : FoundCallbackThrows(e) /\ UNCHANGED <<delayVars, pureVars>>
    \/ \E e \in Errors : ParsingCallbackThrows(e) /\ UNCHANGED <<delayVars, pureVars>>

ScanFailSpec == ScanInit /\ [][ScanFailNext]_vars

----------------------------------------------------------------------------
(***************************************************************************)
(* managedDelay(ms, signal) (common/utils.cts): a promise settled by a     *)
(* managed timer of the tracker or by the signal's 'abort' event.  One     *)
(* signal is shared by the calls that pass one; a call may pass none.      *)
(***************************************************************************)

\* new VisualizerError("CANCELLATION_REQUESTED", "Operation cancelled", "RETRYABLE")
OperationCancelled ==
    [code |-> "CANCELLATION_REQUESTED", message |-> "Operation cancelled",
     severity |-> "RETRYABLE"]

\* if (signal?.aborted) return reject(...)
AbortedAtEntry(withSignal, signalAborted) == withSignal /\ signalAborted

\* cleanup(): signal?.removeEventListener('abort', onAbort)
CleanupKeepsListener(ls, d) == ls
Cleanup(ls, d) == SelectSeq(ls, LAMBDA x : x # d)

\* onAbort's timer.cancel(): clearTimeout on the host timer
OnAbortLeavesTimer(tms, t) == tms
OnAbortCancel(tms, t) ==
    [tms EXCEPT ![t].host = ClearTimeout(@),
                ![t].cancelledBeforeFire = @ \/ tms[t].host = "armed",
                ![t].cancelledAfterFire = @ \/ tms[t].host = "fired"]

\* resolve() / reject(e) on a promise: only a pending promise changes
SettleWith(p, outcome) == IF p.status = "pending" THEN outcome ELSE p

\* onAbort of delay d, on the state st of the tracker, the promises, the
\* delays and the signal's listeners: timer.cancel(); reject(...); cleanup()
OnAbort(st, d) ==
    LET dl == st.delays[d]
        id == st.timers[dl.timer].id IN
    [activeTasks |-> CancelRegistry(st.activeTasks, id),
     events |-> CancelEvents(st.events, st.activeTasks, id),
     timers |-> OnAbortCancel(st.timers, dl.timer),
     promises |-> [st.promises EXCEPT ![dl.promise] =
                        SettleWith(@, Rejected(OperationCancelled))],
     delays |-> [st.delays EXCEPT ![d].settleCalls = @ + 1],
     listeners |-> Cleanup(st.listeners, d)]

\* the dispatch of 'abort' to the listeners registered when it starts, in
\* registration order
RECURSIVE Dispatch(_, _)
Dispatch(st, ls) ==
    IF ls = <<>> THEN st ELSE Dispatch(OnAbort(st, Head(ls)), Tail(ls))

\* managedDelay(ms, signal): the executor of the promise
ManagedDelay(ms, withSignal) ==
    LET d == Len(delays) + 1
        p == Len(promises) + 1 IN
    /\ nextId <= MaxIds
    /\ Len(promises) < MaxPromises
    /\ IF AbortedAtEntry(withSignal, aborted)
       THEN /\ promises' = Append(promises, Rejected(OperationCancelled))
            /\ delays' = Append(delays,
                    [promise |-> p, timer |-> 0, ms |-> ms,
                     withSignal |-> withSignal, abortedAtCall |-> TRUE,
                     settleCalls |-> 1])
            /\ UNCHANGED <<activeTasks, nextId, timers, events, listeners>>
       ELSE /\ promises' = Append(promises, Pending)
            /\ ArmTimer(ms, p)
            /\ delays' = Append(delays,
                    [promise |-> p, timer |-> Len(timers) + 1, ms |-> ms,
                     withSignal |-> withSignal,
                     abortedAtCall |-> (withSignal /\ aborted),
                     settleCalls |-> 0])
            /\ listeners' = IF withSignal THEN Append(listeners, d) ELSE listeners
    /\ UNCHANGED <<now, calls, aborted>>

\* the managed timer of delay d fires: the tracker's callback, whose handler
\* is () => { resolve(); cleanup(); }
DelayTimerFire(d) ==
    /\ delays[d].timer # 0
    /\ TimerFire(delays[d].timer)
    /\ delays' = [delays EXCEPT ![d].settleCalls = @ + 1]
    /\ listeners' = Cleanup(listeners, d)
    /\ UNCHANGED aborted

\* controller.abort(): the signal becomes aborted and 'abort' is dispatched
Abort ==
    LET st == Dispatch([activeTasks |-> activeTasks, events |-> events,
                        timers |-> timers, promises |-> promises,
                        delays |-> delays, listeners |-> listeners],
                       listeners) IN
    /\ ~aborted
    /\ aborted' = TRUE
    /\ activeTasks' = st.activeTasks
    /\ events' = st.events
    /\ timers' = st.timers
    /\ promises' = st.promises
    /\ delays' = st.delays
    /\ listeners' = st.listeners
    /\ UNCHANGED <<nextId, now, calls>>

DelayNext ==
    \/ \E ms \in Delays : \E withSignal \in BOOLEAN :
          ManagedDelay(ms, withSignal) /\ UNCHANGED <<scanVars, pureVars>>
    \/ \E d \in DOMAIN delays : DelayTimerFire(d) /\ UNCHANGED <<scanVars, pureVars>>
    \/ Abort /\ UNCHANGED <<scanVars, pureVars>>
    \/ Tick /\ UNCHANGED <<scanVars, delayVars, pureVars>>

DelaySpec == Init /\ [][DelayNext]_vars

----------------------------------------------------------------------------
(***************************************************************************)
(* FileParser.parse, the block ids and the island offsets as functions of  *)
(* their arguments.  A file name is the sequence of its bytes, a document  *)
(* text the sequence of its pieces: a line break or a declaration.         *)
(***************************************************************************)

MaxIndex == 10000  \* the island offsets compared are those of 0..MaxIndex-1
MaxNameLen == 3    \* most bytes of a file name
MaxTextLen == 3    \* most pieces of a document text

\* '/', '>', '?', 'a'
NameBytes == {47, 62, 63, 97}

\* "\n", a class declaration, a function declaration
TextPieces == {"\n", "class A {}", "function f() {}"}

SeqsUpTo(S, n) == UNION {[1..k -> S] : k \in 0..n}

\* the digits of base64
Base64Alphabet ==
    <<"A", "B", "C", "D", "E", "F", "G", "H", "I", "J", "K", "L", "M", "N", "O", "P",
      "Q", "R", "S", "T", "U", "V", "W", "X", "Y", "Z", "a", "b", "c", "d", "e", "f",
      "g", "h", "i", "j", "k", "l", "m", "n", "o", "p", "q", "r", "s", "t", "u", "v",
      "w", "x", "y", "z", "0", "1", "2", "3", "4", "5", "6", "7", "8", "9", "+", "/">>
\* Buffer.from(fileName).toString('base64')
RECURSIVE Base64(_)
Base64(bytes) ==
    LET A == Base64Alphabet
        b1 == bytes[1]
        b2 == bytes[2]
        b3 == bytes[3] IN
    IF bytes = <<>> THEN <<>>
    ELSE IF Len(bytes) = 1
    THEN <<A[(b1 \div 4) + 1], A[(b1 % 4) * 16 + 1], "=", "=">>
    ELSE IF Len(bytes) = 2
    THEN <<A[(b1 \div 4) + 1], A[(b1 % 4) * 16 + (b2 \div 16) + 1],
           A[(b2 % 16) * 4 + 1], "=">>
    ELSE <<A[(b1 \div 4) + 1], A[(b1 % 4) * 16 + (b2 \div 16) + 1],
           A[(b2 % 16) * 4 + (b3 \div 64) + 1], A[(b3 % 64) + 1]>>
            \o Base64(SubSeq(bytes, 4, Len(bytes)))

\* .replace(/[/+=]/g, '')
ReplaceSpecials(chars) == SelectSeq(chars, LAMBDA c : c \notin {"/", "+", "="})

\* the string of a sequence of characters
RECURSIVE Join(_)
Join(chars) == IF chars = <<>> THEN "" ELSE Head(chars) \o Join(Tail(chars))

\* const fileHash = Buffer.from(fileName).toString('base64').replace(/[/+=]/g, '')
FileHashOfBytes(bytes) == Join(ReplaceSpecials(Base64(bytes)))

\* text.split('\n'): the pieces between the line breaks, always one line at
\* least
RECURSIVE SplitLinesSkipEmpty(_)
SplitLinesSkipEmpty(text) ==
    IF text = <<>> THEN <<>>
    ELSE IF \A i \in DOMAIN text : text[i] # "\n" THEN <<text>>
    ELSE LET i == CHOOSE i \in DOMAIN text :
                    text[i] = "\n" /\ \A j \in 1..(i - 1) : text[j] # "\n" IN
         (IF i = 1 THEN <<>> ELSE <<SubSeq(text, 1, i - 1)>>)
            \o SplitLinesSkipEmpty(SubSeq(text, i + 1, Len(text)))
RECURSIVE SplitLines(_)
SplitLines(text) ==
    IF \A i \in DOMAIN text : text[i] # "\n" THEN <<text>>
    ELSE LET i == CHOOSE i \in DOMAIN text :
                    text[i] = "\n" /\ \A j \in 1..(i - 1) : text[j] # "\n" IN
         <<SubSeq(text, 1, i - 1)>> \o SplitLines(SubSeq(text, i + 1, Len(text)))

\* the first pattern a line matches: the class pattern is tried first
LineKind(line) ==
    IF line = <<>> THEN "none"
    ELSE IF \E i \in DOMAIN line : line[i] = "class A {}" THEN "class"
    ELSE "function"

\* new VisualizerError("CANCELLATION_REQUESTED", "Parsing cancelled", true)
ParsingCancelled ==
    [code |-> "CANCELLATION_REQUESTED", message |-> "Parsing cancelled",
     severity |-> TRUE]

\* for (let i = 0; i < lines.length; i++) { check the token; match the line }
\* (lines are counted from 1 here; no text of the model reaches the yield at
\* line 200, so the token is the same at every line)
RECURSIVE ParseLoop(_, _, _, _, _)
ParseLoop(lines, i, objects, isCancellationRequested, fileName) ==
    IF i > Len(lines) THEN [kind |-> "returned", objects |-> objects]
    ELSE IF ParseChecksToken(isCancellationRequested)
    THEN [kind |-> "threw", error |-> ParsingCancelled, objects |-> <<>>]
    ELSE ParseLoop(lines, i + 1,
            IF LineKind(lines[i]) = "none" THEN objects
            ELSE Append(objects,
                    createObject(IF LineKind(lines[i]) = "class" THEN "A" ELSE "f",
                                 LineKind(lines[i]), Len(objects), fileName)),
            isCancellationRequested, fileName)

\* parse(document, token)
Parse(text, fileName, isCancellationRequested) ==
    ParseLoop(SplitLines(text), 1, <<>>, isCancellationRequested, fileName)

\* the ids of the two blocks parse makes for a file of two declarations
BlockIdsOf(bytes) == [b \in 1..2 |-> BlockId(FileHashOfBytes(bytes), b - 1)]

PureCalls ==
    {[fn |-> "islandOffset", index |-> i] : i \in 0..(MaxIndex - 1)}
    \cup {[fn |-> "createObject", a |-> a, b |-> b] :
            a, b \in SeqsUpTo(NameBytes, MaxNameLen) \ {<<>>}}
    \cup {[fn |-> "parse", text |-> t, isCancellationRequested |-> c] :
            t \in SeqsUpTo(TextPieces, MaxTextLen), c \in BOOLEAN}

PureInit ==
    /\ TrackerInit
    /\ workspace = <<>>
    /\ ScanIdle
    /\ DelayIdle
    /\ pureCall \in PureCalls
    /\ pureResult = [kind |-> "none"]

\* the offset of the file at pureCall.index
CallIslandOffset ==
    /\ pureCall.fn = "islandOffset"
    /\ pureResult.kind = "none"
    /\ pureResult' = [kind |-> "offset", offset |-> IslandOffset(pureCall.index)]
    /\ UNCHANGED <<trackerVars, scanVars, delayVars, pureCall>>

\* two files named pureCall.a and pureCall.b, of two declarations each, are
\* parsed: the ids of their blocks
CallCreateObject ==
    /\ pureCall.fn = "createObject"
    /\ pureResult.kind = "none"
    /\ pureResult' = [kind |-> "ids", a |-> BlockIdsOf(pureCall.a),
                      b |-> BlockIdsOf(pureCall.b)]
    /\ UNCHANGED <<trackerVars, scanVars, delayVars, pureCall>>

\* parser.parse(document, token) on a document of text pureCall.text
CallParse ==
    /\ pureCall.fn = "parse"
    /\ pureResult.kind = "none"
    /\ pureResult' = Parse(pureCall.text, "/ws/f0.ts", pureCall.isCancellationRequested)
    /\ UNCHANGED <<trackerVars, scanVars, delayVars, pureCall>>

PureNext ==
    \/ CallIslandOffset
    \/ CallCreateObject
    \/ CallParse

PureSpec == PureInit /\ [][PureNext]_vars

----------------------------------------------------------------------------
(* Properties of the scan *)

\* the number of batches of n files
BatchCount(n) == (n + batchSize - 1) \div batchSize

\* the scan's loop ran through every batch and returned
ScanCompleted == scanPc = "returned" /\ ~stoppedEarly

\* what file k contributes when its parse runs to the end
FullResult(k) == Translate(ParseFile(File(k)), k)

\* the concatenation of what the items hold, in enumeration order
MergedItems == MergeBatch(<<>>, items, 0, total - 1)

Unsettled == {k \in DOMAIN items : items[k].state \in {"opening", "parsing"}}

\* C11 (as claimed): a scan of N files that is not cut short calls the
\* progress callback exactly ceil(N/5) times, the k-th call with
\* current = min(5k, N) and total = N.
C11_ProgressOncePerBatch ==
    ScanCompleted =>
        /\ Len(progressCalls) = BatchCount(total)
        /\ \A j \in DOMAIN progressCalls :
              /\ progressCalls[j].current = Min(batchSize * j, total)
              /\ progressCalls[j].total = total

\* C11 (amended): the callback is called ceil(N/5) + 1 times: first once after
\* the enumeration with current = 0, then once per batch, the k-th of these
\* with current = min(5k, N); total = N on every call.
C11_ProgressFoundThenOncePerBatch ==
    ScanCompleted =>
        /\ Len(progressCalls) = BatchCount(total) + 1
        /\ \A j \in DOMAIN progressCalls :
              /\ progressCalls[j].current = Min(batchSize * (j - 1), total)
              /\ progressCalls[j].total = total

C11_Witness ==
    /\ ScanCompleted
    /\ total = 12
    /\ [j \in DOMAIN progressCalls |-> progressCalls[j].current] = <<0, 5, 10, 12>>

\* C12: in every progress call current <= total, and from one call of a scan
\* to the next current never decreases.
C12_CurrentBoundedAndMonotone ==
    \A j \in DOMAIN progressCalls :
        /\ progressCalls[j].current <= progressCalls[j].total
        /\ j > 1 => progressCalls[j - 1].current <= progressCalls[j].current

C12_Witness ==
    /\ total % batchSize # 0
    /\ Len(progressCalls) = BatchCount(total) + 1
    /\ progressCalls[Len(progressCalls)].current = total
    /\ total > batchSize

C15_CancelledScanIsDistinguishable ==
    (scanPc = "returned" /\ stoppedEarly) =>
        promises[scanRef.promise].status # "resolved"

\* C16: with the token cancelled when scanWorkspace is called, no batch is
\* dispatched, the parser is never invoked and the result is empty.
C16_PreCancelledScanDoesNothing ==
    cancelledAtCall =>
        /\ dispatched = <<>>
        /\ parserCalls = {}
        /\ allObjects = <<>>
        /\ scanPc = "returned" => promises[scanRef.promise] = Resolved(<<>>)

C16_Witness ==
    /\ cancelledAtCall
    /\ scanPc = "returned"
    /\ total = 12

\* C17: once the token is cancelled no further batch is dispatched, and the
\* scan returns what has been merged until then.
C17_NoBatchAfterCancellation ==
    /\ [][cancelled => dispatched' = dispatched]_vars
    /\ [](scanPc = "returned" =>
            /\ promises[scanRef.promise] = Resolved(allObjects)
            /\ allObjects = MergedItems)

C17_Witness ==
    /\ scanPc = "returned"
    /\ stoppedEarly
    /\ ~cancelledAtCall
    /\ Len(dispatched) = 2
    /\ Len(allObjects) > 0
    /\ total > 2 * batchSize

\* C18: an item whose open or parse fails contributes nothing, the other
\* items contribute their full results, the scan never rejects, and a scan
\* that is not cancelled still goes through every batch.
C18_ItemFailuresAreIsolated ==
    /\ scanPc # "failed"
    /\ scanRef.promise # 0 => promises[scanRef.promise].status # "rejected"
    /\ \A k \in DOMAIN items :
          items[k].state = "done" =>
              IF File(k).opens /\ ~items[k].tokenAtParse
              THEN items[k].blocks = FullResult(k)
              ELSE items[k].blocks = <<>>
    /\ ScanCompleted =>
          /\ Len(dispatched) = BatchCount(total)
          /\ allObjects = MergedItems

C18_Witness ==
    \E k \in DOMAIN items :
        /\ ScanCompleted
        /\ ~cancelled
        /\ k < batchSize
        /\ items[k].outcome = "OPEN_FAILED"
        /\ File(k).decls > 0
        /\ total > batchSize
        /\ Len(allObjects) > 0

\* C19: at most batchSize items are in flight, and no item of a later batch
\* has been dispatched while an item of an earlier batch is unsettled.
C19_BoundedFanOut ==
    /\ Cardinality(Unsettled) <= batchSize
    /\ \A j, k \in DOMAIN items :
          (j \div batchSize < k \div batchSize /\ items[k].state # "waiting")
              => items[j].state = "done"

C19_Witness ==
    /\ Cardinality(Unsettled) = batchSize
    /\ loopI = batchSize

\* C20: the offset added to an item's blocks is the offset of the item's
\* global index in the enumerated list, in whatever order the items of the
\* batch complete.
C20_OffsetFollowsGlobalIndex ==
    \A k \in DOMAIN items :
        items[k].outcome = "ok" =>
            /\ Len(items[k].blocks) = File(k).decls
            /\ \A b \in DOMAIN items[k].blocks :
                  /\ items[k].blocks[b].position.x
                        = ParseFile(File(k))[b].position.x + IslandOffset(k).x
                  /\ items[k].blocks[b].position.z
                        = ParseFile(File(k))[b].position.z + IslandOffset(k).z

\* in the second batch, a later item has completed before an earlier one
C20_Witness ==
    \E j, k \in DOMAIN items :
        /\ batchSize <= j /\ j < k
        /\ items[j].state = "opening"
        /\ items[k].outcome = "ok"
        /\ items[k].blocks # <<>>

\* what file k of workspace ws contributes to a scan that is never cancelled
ItemContribution(ws, k) ==
    IF ws[k + 1].opens THEN Translate(ParseFile(ws[k + 1]), k) ELSE <<>>

\* the result of a scan of the first n files of ws that is never cancelled
RECURSIVE ScanResult(_, _)
ScanResult(ws, n) ==
    IF n = 0 THEN <<>> ELSE ScanResult(ws, n - 1) \o ItemContribution(ws, n - 1)

\* C21: the result of a scan that is not cancelled, and every item's
\* contribution with its offset, is a function of the ordered file list and
\* the parser outputs alone: whatever the scheduling of the parser calls, two
\* scans over the same list return the same sequence.
C21_ResultIsAFunctionOfTheInput ==
    (scanPc = "returned" /\ ~cancelled) =>
        /\ \A k \in DOMAIN items : items[k].blocks = ItemContribution(workspace, k)
        /\ promises[scanRef.promise] = Resolved(ScanResult(workspace, Len(workspace)))

C21_Witness ==
    /\ scanPc = "returned"
    /\ ~cancelled
    /\ overtaken
    /\ total > batchSize
    /\ Len(allObjects) > batchSize

\* the blocks of the first n items, item 0's first
RECURSIVE Concatenation(_, _)
Concatenation(its, n) ==
    IF n = 0 THEN <<>> ELSE Concatenation(its, n - 1) \o its[n - 1].blocks

\* C27: the scan changes only position.x and position.z of a parser's
\* block, by the item's offset; position.y, id, type, metadata and color are
\* those the parser returned, and so is the number of blocks of the item.
C27_OnlyXAndZAreTranslated ==
    \A k \in DOMAIN items :
        items[k].outcome = "ok" =>
            LET parsed == ParseFile(File(k)) IN
            /\ Len(items[k].blocks) = Len(parsed)
            /\ \A b \in DOMAIN parsed :
                  /\ items[k].blocks[b].id = parsed[b].id
                  /\ items[k].blocks[b].type = parsed[b].type
                  /\ items[k].blocks[b].metadata = parsed[b].metadata
                  /\ items[k].blocks[b].color = parsed[b].color
                  /\ items[k].blocks[b].position.y = parsed[b].position.y
                  /\ items[k].blocks[b].position.x - parsed[b].position.x
                        = IslandOffset(k).x
                  /\ items[k].blocks[b].position.z - parsed[b].position.z
                        = IslandOffset(k).z

C27_Witness ==
    \E k \in DOMAIN items :
        /\ k > 0
        /\ items[k].outcome = "ok"
        /\ Len(items[k].blocks) = 2
        /\ items[k].blocks[2].position # ParseFile(File(k))[2].position
        /\ scanPc = "returned"

\* C29: the objects merged so far are the contributions of the items of the
\* merged batches in enumeration order, item 0's first, whatever the order
\* in which the callbacks of a batch returned.
C29_MergedInEnumerationOrder ==
    /\ allObjects = Concatenation(items, Min(loopI, total))
    /\ scanPc = "returned" =>
          promises[scanRef.promise] = Resolved(Concatenation(items, total))

C29_Witness ==
    \E j, k \in DOMAIN items :
        /\ scanPc = "returned"
        /\ overtaken
        /\ j < k /\ j \div batchSize = k \div batchSize
        /\ items[j].blocks # <<>>
        /\ items[k].blocks # <<>>

\* the scan's call of taskTracker.track
ScanTrack == calls[scanRef.call]

\* C26: when findFiles rejects or the progress callback throws, the scan's
\* promise rejects with that error, track rethrows the same error to the
\* caller of scanWorkspace, and the 'Workspace Scan' entry is gone once the
\* call has settled.
C26_ScanFailurePropagates ==
    scanPc = "failed" =>
        /\ scanError \in Errors
        /\ promises[scanRef.promise] = Rejected(scanError)
        /\ ScanTrack.pc # "awaiting" =>
              /\ ScanTrack.returned = Rejected(scanError)
              /\ ~MapHas(activeTasks, ScanTrack.id)
        /\ ScanTrack.pc = "observed" =>
              /\ ScanTrack.callerSaw = Rejected(scanError)
              /\ ~ScanTrack.callerSawEntry

C26_Witness ==
    /\ scanPc = "failed"
    /\ ScanTrack.pc = "observed"
    /\ scanError.code = "PARSING_FAILED"
    /\ Len(progressCalls) = 3
    /\ activeTasks = <<>>

\* C28: if the enumeration and every open and parse call settle, a scan that
\* was called returns, cancelled or not, and its 'Workspace Scan' entry is
\* removed; while the scan is in flight the tracker holds exactly one entry,
\* the scan's, and never more than one.
C28_ScanReturnsAndLeavesTheTracker ==
    /\ [](Len(activeTasks) <= 1)
    /\ [](scanPc \in {"finding", "awaiting"} =>
            /\ Len(activeTasks) = 1
            /\ activeTasks[1].description = "Workspace Scan"
            /\ activeTasks[1].id = ScanTrack.id)
    /\ (scanPc # "idle") ~>
            (scanPc = "returned" /\ ScanTrack.pc # "awaiting" /\ activeTasks = <<>>)

C28_Witness ==
    /\ scanPc = "returned"
    /\ stoppedEarly
    /\ ScanTrack.pc = "settled"
    /\ activeTasks = <<>>
    /\ Len(dispatched) = 2
    /\ \E k \in DOMAIN items : items[k].outcome = "OPEN_FAILED"

----------------------------------------------------------------------------
(* Properties of managedDelay *)

DelayPromise(d) == promises[delays[d].promise]

\* the entries of the tracker that belong to delay d
DelayEntries(d) ==
    IF delays[d].timer = 0 THEN {}
    ELSE {i \in DOMAIN activeTasks : activeTasks[i].id = timers[delays[d].timer].id}

PendingDelays == {d \in DOMAIN delays : DelayPromise(d).status = "pending"}

\* C25: a delay resolves exactly when its managed timer has fired and rejects
\* with CANCELLATION_REQUESTED exactly when the signal was aborted first;
\* resolve or reject is called once; a pending delay is one timer entry of
\* the tracker, and the tracker holds nothing else.
C25_DelaySettlesOnceByTimerOrAbort ==
    /\ \A d \in DOMAIN delays :
          LET p == DelayPromise(d) IN
          /\ delays[d].settleCalls = (IF p.status = "pending" THEN 0 ELSE 1)
          /\ p.status = "resolved" <=>
                (delays[d].timer # 0 /\ timers[delays[d].timer].host = "fired")
          /\ p.status = "rejected" <=>
                (delays[d].withSignal /\ aborted
                    /\ (delays[d].timer # 0 => timers[delays[d].timer].host = "cleared"))
          /\ p.status = "rejected" => p.payload.code = "CANCELLATION_REQUESTED"
          /\ p.status = "pending" =>
                /\ Cardinality(DelayEntries(d)) = 1
                /\ \A i \in DelayEntries(d) :
                      activeTasks[i].description = TimerDescription(delays[d].ms)
    /\ Len(activeTasks) = Cardinality(PendingDelays)

C25_Witness ==
    \E d, e \in DOMAIN delays :
        /\ DelayPromise(d).status = "resolved"
        /\ delays[d].withSignal
        /\ DelayPromise(e).status = "rejected"
        /\ delays[e].timer # 0
        /\ d < e

\* C30: a settled delay has no entry in the tracker and no listener on the
\* signal, however it settled; a delay called with the signal already
\* aborted never registers a timer.
C30_SettledDelayLeavesNothing ==
    /\ \A d \in DOMAIN delays :
          /\ DelayPromise(d).status # "pending" =>
                /\ DelayEntries(d) = {}
                /\ \A i \in DOMAIN listeners : listeners[i] # d
          /\ delays[d].abortedAtCall =>
                /\ delays[d].timer = 0
                /\ DelayPromise(d).status = "rejected"
    /\ Len(timers) = Cardinality({d \in DOMAIN delays : ~delays[d].abortedAtCall})
    /\ PendingDelays = {} => (activeTasks = <<>> /\ listeners = <<>>)

C30_Witness ==
    \E d, e \in DOMAIN delays :
        /\ delays[d].timer # 0
        /\ timers[delays[d].timer].host = "cleared"
        /\ DelayPromise(d).status = "rejected"
        /\ delays[e].abortedAtCall
        /\ activeTasks = <<>>
        /\ listeners = <<>>

----------------------------------------------------------------------------
(* Properties of the parser and of the layout *)

\* C22: the island offsets of the indices 0 .. MaxIndex-1 are pairwise
\* distinct: the offset computed for an index is the offset of no other.
C22_IslandOffsetsAreDistinct ==
    (pureCall.fn = "islandOffset" /\ pureResult.kind = "offset") =>
        \A j \in 0..(MaxIndex - 1) :
            j # pureCall.index => IslandOffset(j) # pureResult.offset

C22_Witness ==
    /\ pureCall.fn = "islandOffset"
    /\ pureCall.index = 9999
    /\ pureResult.kind = "offset"
    /\ pureResult.offset = [x |-> IslandX[10000], z |-> IslandZ[10000]]

\* C23: blocks of files with different names never share an id, and neither
\* do two blocks of one file.
C23_BlockIdsAreDistinct ==
    (pureCall.fn = "createObject" /\ pureResult.kind = "ids") =>
        /\ pureResult.a[1] # pureResult.a[2]
        /\ pureResult.b[1] # pureResult.b[2]
        /\ pureCall.a # pureCall.b =>
              \A i, j \in 1..2 : pureResult.a[i] # pureResult.b[j]

\* C24: parse called with a cancelled token throws VisualizerError with code
\* CANCELLATION_REQUESTED and yields no block, for every text, the empty
\* text included.
C24_ParseThrowsWhenCancelledAtEntry ==
    (pureCall.fn = "parse" /\ pureResult.kind # "none") =>
        IF pureCall.isCancellationRequested
        THEN /\ pureResult.kind = "threw"
             /\ pureResult.error.code = "CANCELLATION_REQUESTED"
             /\ pureResult.objects = <<>>
        ELSE pureResult.kind = "returned"

C24_Witness ==
    /\ pureCall.fn = "parse"
    /\ pureCall.text = <<>>
    /\ pureCall.isCancellationRequested
    /\ pureResult.kind = "threw"

====
